---- MODULE Spec2Model ----
(***************************************************************************)
(* The caching parquet read path of components/parquet/src/               *)
(* serialized_reader.rs: CachableSerializedFileReader (metadata cache),    *)
(* SerializedRowGroupReader (column chunk cache) and SerializedPageReader. *)
(***************************************************************************)
EXTENDS Integers, Sequences, FiniteSets, TLC

\* ------------------------------------------------------------------------
\* Bounds of the model

\* concurrent callers of CachableSerializedFileReader::new
NumOpens == 2
\* row groups a file's footer may describe
MaxRowGroups == 2
\* concurrent callers of get_column_page_reader
NumCalls == 3
\* pages a column chunk's byte stream is built from
MaxPages == 2
\* largest total_num_values a page reader is created with
MaxTotal == 3
\* full reads made through the caches
MaxReads == 2
\* page readers of one row group in use at the same time
NumReaders == 2
\* filter_row_groups calls made on the readers of a file
MaxFilters == 2
\* end reports asked of one page iterator
MaxEnds == 2
\* get_file_chunk calls made on the named files
MaxResolves == 3
\* usize arithmetic is modulo 2^64 in the program; the model scales the word
\* down so that wrapped values stay inside TLC's integers. Every
\* length a stream of the model can have is far below WordMod \div 2.
WordMod == 64

\* ------------------------------------------------------------------------
\* Bytes, page headers and the codec

\* one byte of a file that does not start a well-formed Thrift page header
Byte(v) == [tag |-> "byte", v |-> v]

\* the Thrift compact encoding of one parquet_format::PageHeader, read or
\* skipped as a unit by read_page_header; `sub` is the set of optional
\* sub-headers that are present
Hdr(type_, cps, ups, sub, nv, def, rep, ic) ==
    [tag |-> "hdr", type_ |-> type_,
     compressed_page_size |-> cps, uncompressed_page_size |-> ups,
     sub |-> sub, num_values |-> nv,
     definition_levels_byte_length |-> def,
     repetition_levels_byte_length |-> rep,
     is_compressed |-> ic]

Min(a, b) == IF a < b THEN a ELSE b

\* Codec::decompress: every compressed byte v expands to v copies of itself;
\* a zero byte, or anything that is not payload, is corrupt input.
RECURSIVE Decompress(_)
Decompress(s) ==
    IF s = << >> THEN [ok |-> TRUE, out |-> << >>]
    ELSE LET e == Head(s)
             rest == Decompress(Tail(s))
         IN  IF e.tag # "byte" \/ e.v = 0 \/ ~rest.ok
             THEN [ok |-> FALSE, out |-> << >>]
             ELSE [ok |-> TRUE, out |-> [i \in 1 .. e.v |-> e] \o rest.out]

\* compression::create_codec: no codec for UNCOMPRESSED, a codec for SNAPPY,
\* Err for a compression kind the build has no codec for
CreateCodec(compression) ==
    IF compression = "UNCOMPRESSED" THEN [ok |-> TRUE, codec |-> FALSE]
    ELSE IF compression = "SNAPPY" THEN [ok |-> TRUE, codec |-> TRUE]
    ELSE [ok |-> FALSE, codec |-> FALSE]

\* `x as usize` of an i32
AsUsize(x) == IF x < 0 THEN WordMod + x ELSE x

\* isize::MAX, the largest capacity a Vec<u8> can be given
IsizeMax == (WordMod \div 2) - 1

\* usize `a - b`: panics on underflow when the build checks overflow,
\* wraps otherwise
UsizeSub(a, b, checked) ==
    IF a >= b THEN [panic |-> FALSE, v |-> a - b]
    ELSE IF checked THEN [panic |-> TRUE, v |-> 0]
    ELSE [panic |-> FALSE, v |-> a - b + WordMod]

\* usize `a + b`
UsizeAdd(a, b, checked) ==
    IF a + b < WordMod THEN [panic |-> FALSE, v |-> a + b]
    ELSE IF checked THEN [panic |-> TRUE, v |-> 0]
    ELSE [panic |-> FALSE, v |-> a + b - WordMod]

\* ------------------------------------------------------------------------
\* Page reader: SerializedPageReader

\* SerializedPageReader::new over a cursor at the start of `bytes`
PageReaderNew(bytes, total, codec) ==
    [buf |-> bytes, pos |-> 1, decompressor |-> codec,
     seen_num_values |-> 0, total_num_values |-> total]

\* a get_next_page whose Ok(None) puts the reader back at the start of its
\* chunk
Pulled_EndRewinds(kind, rd, pos, seen, page, why, skipped) ==
    [kind |-> kind,
     rd |-> IF kind = "end" THEN [rd EXCEPT !.pos = 1, !.seen_num_values = 0]
            ELSE [rd EXCEPT !.pos = pos, !.seen_num_values = seen],
     page |-> page, why |-> why, skipped |-> skipped]

\* what one get_next_page call hands back: kind is "page" (Ok(Some)), "end"
\* (Ok(None)), "err" (Err) or "panic"; rd is the reader afterwards; skipped
\* counts the pages the loop passed over with `continue`
Pulled(kind, rd, pos, seen, page, why, skipped) ==
    [kind |-> kind,
     rd |-> [rd EXCEPT !.pos = pos, !.seen_num_values = seen],
     page |-> page, why |-> why, skipped |-> skipped]

\* `x as u32` of an i32, the word scaled down as for usize
AsU32(x) == IF x < 0 THEN WordMod + x ELSE x

\* header_v2.is_compressed.unwrap_or(false)
IsCompressed_DefaultFalse(h) == h.is_compressed = "true"

\* header_v2.is_compressed.unwrap_or(true): the flag is "true", "false" or
\* absent ("none")
IsCompressed(h) == h.is_compressed # "false"

\* the match on page_header.type_ (lines 339-386) for a value page
TypedPage(h, buffer) ==
    IF h.type_ = "DICTIONARY_PAGE"
    THEN [type |-> "DictionaryPage", buf |-> buffer, num_values |-> AsU32(h.num_values),
          def_levels_byte_len |-> 0, rep_levels_byte_len |-> 0, is_compressed |-> FALSE]
    ELSE IF h.type_ = "DATA_PAGE"
    THEN [type |-> "DataPage", buf |-> buffer, num_values |-> AsU32(h.num_values),
          def_levels_byte_len |-> 0, rep_levels_byte_len |-> 0, is_compressed |-> FALSE]
    ELSE [type |-> "DataPageV2", buf |-> buffer, num_values |-> AsU32(h.num_values),
          def_levels_byte_len |-> AsU32(h.definition_levels_byte_length),
          rep_levels_byte_len |-> AsU32(h.repetition_levels_byte_length),
          is_compressed |-> IsCompressed(h)]

\* the sub-header the assert! of each match arm asks for
RequiredSub(type_) ==
    IF type_ = "DICTIONARY_PAGE" THEN "dictionary_page_header"
    ELSE IF type_ = "DATA_PAGE" THEN "data_page_header"
    ELSE "data_page_header_v2"

\* seen_num_values advanced by the value count of every returned page
SeenAfter_CountsAll(seen, h) == seen + h.num_values

\* seen_num_values after the match arm for header h
SeenAfter(seen, h) ==
    IF h.type_ \in {"DATA_PAGE", "DATA_PAGE_V2"} THEN seen + h.num_values ELSE seen

\* the loop condition of get_next_page
MorePages(rd) == rd.seen_num_values < rd.total_num_values

\* one iteration decompressing the whole buffer, level bytes included
LoopBody_WholeBuffer(rd, pos, checked) ==
    LET seen == rd.seen_num_values
        atEnd == Len(rd.buf) + 1
    IN
    IF ~MorePages(rd)
    THEN Pulled("end", rd, pos, seen, << >>, "", 0)
    ELSE IF pos > Len(rd.buf)
    THEN Pulled("err", rd, pos, seen, << >>, "thrift: end of file", 0)
    ELSE IF rd.buf[pos].tag # "hdr"
    THEN Pulled("err", rd, pos + 1, seen, << >>, "thrift: bad header", 0)
    ELSE
    LET h == rd.buf[pos]
        v2 == "data_page_header_v2" \in h.sub
        offset == IF v2
                  THEN AsUsize(h.definition_levels_byte_length
                               + h.repetition_levels_byte_length)
                  ELSE 0
        can_decompress == IF v2 THEN IsCompressed(h) ELSE TRUE
        clen == UsizeSub(AsUsize(h.compressed_page_size), offset, checked)
        ulen == UsizeSub(AsUsize(h.uncompressed_page_size), offset, checked)
        blen == UsizeAdd(offset, clen.v, checked)
        avail == Len(rd.buf) - pos
        raw == SubSeq(rd.buf, pos + 1, pos + blen.v)
        after == pos + 1 + blen.v
        decompressing == rd.decompressor /\ can_decompress
        d == Decompress(raw)
        buffer == IF decompressing THEN d.out ELSE raw
    IN
    IF clen.panic \/ ulen.panic \/ blen.panic
    THEN Pulled("panic", rd, pos + 1, seen, << >>, "arithmetic overflow", 0)
    ELSE IF blen.v > IsizeMax
    THEN Pulled("panic", rd, pos + 1, seen, << >>, "capacity overflow", 0)
    ELSE IF blen.v > avail
    THEN Pulled("err", rd, atEnd, seen, << >>, "read_exact: unexpected eof", 0)
    ELSE IF decompressing /\ ulen.v > IsizeMax
    THEN Pulled("panic", rd, after, seen, << >>, "capacity overflow", 0)
    ELSE IF decompressing /\ offset > Len(raw)
    THEN Pulled("panic", rd, after, seen, << >>, "slice index out of range", 0)
    ELSE IF decompressing /\ ~d.ok
    THEN Pulled("err", rd, after, seen, << >>, "decompress", 0)
    ELSE IF decompressing /\ Len(d.out) # ulen.v
    THEN Pulled("err", rd, after, seen, << >>, "decompressed size mismatch", 0)
    ELSE IF h.type_ \notin {"DICTIONARY_PAGE", "DATA_PAGE", "DATA_PAGE_V2"}
    THEN Pulled("continue", rd, after, seen, << >>, "", 0)
    ELSE IF RequiredSub(h.type_) \notin h.sub
    THEN Pulled("panic", rd, after, seen, << >>, "assertion failed", 0)
    ELSE Pulled("page", rd, after, SeenAfter(seen, h), << TypedPage(h, buffer) >>,
                "", 0)

\* one iteration of the loop of get_next_page (lines 291-386) from stream
\* position `pos`, `checked` telling whether the build panics on integer
\* overflow: the answer the call returns from this iteration, or
\* "continue" with the stream after the page passed over
LoopBody(rd, pos, checked) ==
    LET seen == rd.seen_num_values
        atEnd == Len(rd.buf) + 1
    IN
    IF ~MorePages(rd)
    THEN Pulled("end", rd, pos, seen, << >>, "", 0)
    ELSE IF pos > Len(rd.buf)
    THEN Pulled("err", rd, pos, seen, << >>, "thrift: end of file", 0)
    ELSE IF rd.buf[pos].tag # "hdr"
    THEN Pulled("err", rd, pos + 1, seen, << >>, "thrift: bad header", 0)
    ELSE
    LET h == rd.buf[pos]
        v2 == "data_page_header_v2" \in h.sub
        offset == IF v2
                  THEN AsUsize(h.definition_levels_byte_length
                               + h.repetition_levels_byte_length)
                  ELSE 0
        can_decompress == IF v2 THEN IsCompressed(h) ELSE TRUE
        clen == UsizeSub(AsUsize(h.compressed_page_size), offset, checked)
        ulen == UsizeSub(AsUsize(h.uncompressed_page_size), offset, checked)
        blen == UsizeAdd(offset, clen.v, checked)
        avail == Len(rd.buf) - pos
        raw == SubSeq(rd.buf, pos + 1, pos + blen.v)
        after == pos + 1 + blen.v
        decompressing == rd.decompressor /\ can_decompress
        d == Decompress(SubSeq(raw, offset + 1, Len(raw)))
        buffer == IF decompressing THEN SubSeq(raw, 1, offset) \o d.out ELSE raw
    IN
    IF clen.panic \/ ulen.panic \/ blen.panic
    THEN Pulled("panic", rd, pos + 1, seen, << >>, "arithmetic overflow", 0)
    ELSE IF blen.v > IsizeMax
    THEN Pulled("panic", rd, pos + 1, seen, << >>, "capacity overflow", 0)
    ELSE IF blen.v > avail
    THEN Pulled("err", rd, atEnd, seen, << >>, "read_exact: unexpected eof", 0)
    ELSE IF decompressing /\ ulen.v > IsizeMax
    THEN Pulled("panic", rd, after, seen, << >>, "capacity overflow", 0)
    ELSE IF decompressing /\ offset > Len(raw)
    THEN Pulled("panic", rd, after, seen, << >>, "slice index out of range", 0)
    ELSE IF decompressing /\ ~d.ok
    THEN Pulled("err", rd, after, seen, << >>, "decompress", 0)
    ELSE IF decompressing /\ Len(d.out) # ulen.v
    THEN Pulled("err", rd, after, seen, << >>, "decompressed size mismatch", 0)
    ELSE IF h.type_ \notin {"DICTIONARY_PAGE", "DATA_PAGE", "DATA_PAGE_V2"}
    THEN Pulled("continue", rd, after, seen, << >>, "", 0)
    ELSE IF RequiredSub(h.type_) \notin h.sub
    THEN Pulled("panic", rd, after, seen, << >>, "assertion failed", 0)
    ELSE Pulled("page", rd, after, SeenAfter(seen, h), << TypedPage(h, buffer) >>,
                "", 0)

\* PageReader::get_next_page from stream position `pos`: iterations until
\* one returns; `skipped` counts those that ended in `continue`
RECURSIVE GetNextPageAt(_, _, _, _)
GetNextPageAt(rd, pos, checked, skipped) ==
    LET b == LoopBody(rd, pos, checked) IN
    IF b.kind = "continue"
    THEN GetNextPageAt(rd, b.rd.pos, checked, skipped + 1)
    ELSE [b EXCEPT !.skipped = skipped]

\* PageReader::get_next_page
GetNextPage(rd, checked) == GetNextPageAt(rd, rd.pos, checked, 0)

\* ------------------------------------------------------------------------
\* Files

\* ColumnChunkMetaData: byte_range(), num_values(), compression()
Col(start, length, nv, compression) ==
    [start |-> start, length |-> length, num_values |-> nv,
     compression |-> compression]

\* a byte source as new() is given it: a std::fs::File or a SliceableCursor
\* over the same bytes, with the row groups its footer describes
FileOf(kind, footer_ok, bytes, row_groups) ==
    [kind |-> kind, footer_ok |-> footer_ok, bytes |-> bytes,
     row_groups |-> row_groups]

\* logical file names given to new(): the metadata cache key and the prefix
\* of every data cache key
Names == {"f", "f_1"}

\* Option::None of an Arc<ParquetMetaData>
NoArc == 0

\* footer::parse_metadata(&chunk_reader): Ok(ParquetMetaData) for a
\* well-formed footer, Err otherwise
ParseMetadata(src) ==
    IF src.footer_ok
    THEN [ok |-> TRUE, meta |-> [row_groups |-> src.row_groups]]
    ELSE [ok |-> FALSE, meta |-> [row_groups |-> << >>]]

\* MetaCacheRef::get
MetaCacheGet(cache, name) == cache[name]

\* MetaCacheRef::put
MetaCachePut(cache, name, arc) == [cache EXCEPT ![name] = arc]

\* format_page_data_key without the separators: format!("{}{}{}", ..)
FormatPageDataKey_Unseparated(name, col_start, col_length) ==
    name \o ToString(col_start) \o ToString(col_length)

\* format_page_data_key made of the file name alone
FormatPageDataKey_NameOnly(name, col_start, col_length) == name

\* format_page_data_key with col_start left out of the format string
FormatPageDataKey_NoStart(name, col_start, col_length) ==
    name \o "_" \o ToString(col_length)

\* format_page_data_key: format!("{}_{}_{}", name, col_start, col_length)
FormatPageDataKey(name, col_start, col_length) ==
    name \o "_" \o ToString(col_start) \o "_" \o ToString(col_length)

\* DataCacheRef::get: the entries under `key` (none or one)
DataCacheGet(cache, key) ==
    IF key \in DOMAIN cache THEN << cache[key] >> ELSE << >>

\* DataCacheRef::put
DataCachePut(cache, key, buf) ==
    [k \in DOMAIN cache \cup {key} |-> IF k = key THEN buf ELSE cache[k]]

\* SerializedRowGroupReader::get_data: ChunkReader::get_read(start, length)
\* followed by read_to_end. A SliceableCursor refuses a range that leaves its
\* buffer; a File hands out a reader that stops at the end of the file.
GetData(src, col_start, col_length) ==
    LET n == Len(src.bytes) IN
    IF src.kind = "cursor" /\ (col_start >= n \/ col_start + col_length > n)
    THEN [ok |-> FALSE, buf |-> << >>]
    ELSE [ok |-> TRUE,
          buf |-> SubSeq(src.bytes, col_start + 1, Min(col_start + col_length, n))]

\* SliceableCursor::new(buf)
CursorNew(buf) == [data |-> buf, pos |-> 1]

\* NewPageReader with the codec error put off: the reader is built without
\* a decompressor
NewPageReader_IgnoresCodecError(cursor, col) ==
    [kind |-> "ok",
     reader |-> << [PageReaderNew(cursor.data, col.num_values,
                                  CreateCodec(col.compression).codec)
                       EXCEPT !.pos = cursor.pos] >>]

\* the tail of get_column_page_reader (lines 221-227): SerializedPageReader::
\* new over the cursor, which fails when create_codec fails
NewPageReader(cursor, col) ==
    LET cc == CreateCodec(col.compression) IN
    IF cc.ok
    THEN [kind |-> "ok",
          reader |-> << [PageReaderNew(cursor.data, col.num_values, cc.codec)
                            EXCEPT !.pos = cursor.pos] >>]
    ELSE [kind |-> "err", reader |-> << >>]

\* new() run from call to return: lines 85-95
NewSeq(use_cache, cache, heap, name, src) ==
    LET v == IF use_cache THEN MetaCacheGet(cache, name) ELSE NoArc
        r == ParseMetadata(src)
        fresh == Len(heap) + 1
    IN
    IF v # NoArc THEN [ok |-> TRUE, meta |-> v, cache |-> cache, heap |-> heap]
    ELSE IF ~r.ok THEN [ok |-> FALSE, meta |-> NoArc, cache |-> cache, heap |-> heap]
    ELSE [ok |-> TRUE, meta |-> fresh,
          cache |-> IF use_cache THEN MetaCachePut(cache, name, fresh) ELSE cache,
          heap |-> Append(heap, r.meta)]

\* the file read in full, and the file whose readers are filtered
ReadName == "f"

VARIABLES
    disk,         \* the byte source behind each name
    meta_cache,   \* the shared metadata cache: name -> Arc id, or NoArc
    arcs,         \* every Arc<ParquetMetaData> allocated so far (id = index)
    pc,           \* where each caller of new() stands
    o_name,       \* argument `name`
    o_cached,     \* argument `meta_cache` is Some
    o_hit,        \* outcome of meta_cache.get(&name): "none", "hit", "miss"
    o_meta,       \* the Arc bound to `metadata` / `meta_data`, or NoArc
    n_parse,      \* footer parses this call has run
    n_read,       \* byte-source reads this call has made
    n_put,        \* meta_cache.put calls this call has made
    rg_call,      \* outcome of the reader's last get_row_group(i)
    data_cache,   \* the shared data cache: key -> bytes
    c_pc,         \* where each caller of get_column_page_reader stands
    c_arg,        \* its row group reader's name, data cache and column
    c_hit,        \* outcome of data_cache.get(&key): "none", "hit", "miss"
    c_buf,        \* the Vec get_data returned to it
    c_reads,      \* byte-source reads it has made
    c_chunk,      \* the cursor get_file_chunk returned to it, if any
    c_out,        \* what get_column_page_reader returned to it
    overflow_checks, \* the build panics on integer overflow (debug) or wraps
    pr,           \* a SerializedPageReader
    pr_last,      \* what its last get_next_page returned
    pr_pages,     \* the pages it has returned so far, in order
    pr_failed,    \* some get_next_page on it has returned Err
    rd_cached,    \* what each full read through the two caches yielded
    rd_plain,     \* what the full read without any cache yielded, if made
    rd_run,       \* the full read under way: its reader, position and pages
    flt,          \* the filter_row_groups calls made so far, in order
    c_pages,      \* the pages each call's page reader has returned, in order
    c_last,       \* what the last get_next_page on each call's reader returned
    it,           \* a FilePageIterator and what its next() calls returned
    keys,         \* the get_file_chunk calls made on the named files, in order
    lp            \* the get_next_page call under way on `pr`, iteration by iteration

open_vars == << meta_cache, arcs, pc, o_name, o_cached, o_hit, o_meta,
                n_parse, n_read, n_put, rg_call >>

chunk_vars == << data_cache, c_pc, c_arg, c_hit, c_buf, c_reads, c_chunk, c_out >>

page_vars == << overflow_checks, pr, pr_last, pr_pages, pr_failed >>

read_vars == << rd_cached, rd_plain, rd_run >>

filter_vars == << flt >>

col_vars == << c_pages, c_last >>

iter_vars == << it >>

key_vars == << keys >>

loop_vars == << lp >>

vars == << disk, open_vars, chunk_vars, page_vars, read_vars, filter_vars,
           col_vars, iter_vars, key_vars, loop_vars >>

\* ------------------------------------------------------------------------
\* File reader: CachableSerializedFileReader

Opens == 1 .. NumOpens

\* the row group metadata of row group k of a file
MkRowGroup(k) == [columns |-> << Col(2 * k, 2, 1, "UNCOMPRESSED") >>]

\* a file with n row groups
OpenFile(n) == FileOf("file", TRUE, << >>, [k \in 1 .. n |-> MkRowGroup(k - 1)])

\* a file whose footer does not parse
CorruptFile == FileOf("file", FALSE, << >>, << >>)

\* the files new() is given: "f" has a corrupt footer or up to MaxRowGroups
\* row groups, "f_1" a corrupt footer or one row group
OpenDisks ==
    {[n \in Names |-> IF n = "f" THEN f ELSE g] :
        f \in {CorruptFile} \cup {OpenFile(n) : n \in 0 .. MaxRowGroups},
        g \in {CorruptFile, OpenFile(1)}}

NoCall == [i |-> -1, outcome |-> "none", rg |-> << >>]

OpenIdle ==
    /\ meta_cache = [n \in Names |-> NoArc]
    /\ arcs = << >>
    /\ pc = [p \in Opens |-> "idle"]
    /\ o_name = [p \in Opens |-> "f"]
    /\ o_cached = [p \in Opens |-> FALSE]
    /\ o_hit = [p \in Opens |-> "none"]
    /\ o_meta = [p \in Opens |-> NoArc]
    /\ n_parse = [p \in Opens |-> 0]
    /\ n_read = [p \in Opens |-> 0]
    /\ n_put = [p \in Opens |-> 0]
    /\ rg_call = [p \in Opens |-> NoCall]

\* new() with meta_cache = Some: `meta_cache.get(&name)`; on a hit the cached
\* Arc becomes the reader's metadata and Ok(Self) is returned.
NewGet(p) ==
    /\ pc[p] = "idle"
    /\ \E name \in Names :
        LET v == MetaCacheGet(meta_cache, name) IN
        /\ o_name' = [o_name EXCEPT ![p] = name]
        /\ o_cached' = [o_cached EXCEPT ![p] = TRUE]
        /\ IF v # NoArc
           THEN /\ o_hit' = [o_hit EXCEPT ![p] = "hit"]
                /\ o_meta' = [o_meta EXCEPT ![p] = v]
                /\ pc' = [pc EXCEPT ![p] = "ready"]
           ELSE /\ o_hit' = [o_hit EXCEPT ![p] = "miss"]
                /\ o_meta' = o_meta
                /\ pc' = [pc EXCEPT ![p] = "parse"]
    /\ UNCHANGED << meta_cache, arcs, n_parse, n_read, n_put, rg_call >>
    /\ UNCHANGED << disk, chunk_vars, page_vars, read_vars, filter_vars, col_vars, iter_vars, key_vars, loop_vars >>

\* NewParse with the `?` misplaced: the failed parse still publishes an entry
NewParse_PutsOnError(p) ==
    /\ pc[p] = "parse"
    /\ LET r == ParseMetadata(disk[o_name[p]]) IN
        /\ n_parse' = [n_parse EXCEPT ![p] = @ + 1]
        /\ n_read' = [n_read EXCEPT ![p] = @ + 1]
        /\ arcs' = Append(arcs, r.meta)
        /\ IF r.ok
           THEN /\ o_meta' = [o_meta EXCEPT ![p] = Len(arcs) + 1]
                /\ pc' = [pc EXCEPT ![p] = "put"]
                /\ meta_cache' = meta_cache
           ELSE /\ o_meta' = o_meta
                /\ pc' = [pc EXCEPT ![p] = "failed"]
                /\ meta_cache' = MetaCachePut(meta_cache, o_name[p], Len(arcs) + 1)
    /\ UNCHANGED << o_name, o_cached, o_hit, n_put, rg_call >>
    /\ UNCHANGED << disk, chunk_vars, page_vars, read_vars, filter_vars, col_vars, iter_vars, key_vars, loop_vars >>

\* new(), cache miss: `Arc::new(footer::parse_metadata(&chunk_reader)?)`
NewParse(p) ==
    /\ pc[p] = "parse"
    /\ LET r == ParseMetadata(disk[o_name[p]]) IN
        /\ n_parse' = [n_parse EXCEPT ![p] = @ + 1]
        /\ n_read' = [n_read EXCEPT ![p] = @ + 1]
        /\ IF r.ok
           THEN /\ arcs' = Append(arcs, r.meta)
                /\ o_meta' = [o_meta EXCEPT ![p] = Len(arcs) + 1]
                /\ pc' = [pc EXCEPT ![p] = "put"]
           ELSE /\ arcs' = arcs
                /\ o_meta' = o_meta
                /\ pc' = [pc EXCEPT ![p] = "failed"]
    /\ UNCHANGED << meta_cache, o_name, o_cached, o_hit, n_put, rg_call >>
    /\ UNCHANGED << disk, chunk_vars, page_vars, read_vars, filter_vars, col_vars, iter_vars, key_vars, loop_vars >>

\* NewPut with the insertion forgotten
NewPut_Skipped(p) ==
    /\ pc[p] = "put"
    /\ pc' = [pc EXCEPT ![p] = "ready"]
    /\ UNCHANGED << meta_cache, arcs, o_name, o_cached, o_hit, o_meta,
                    n_parse, n_read, n_put, rg_call >>
    /\ UNCHANGED << disk, chunk_vars, page_vars, read_vars, filter_vars, col_vars, iter_vars, key_vars, loop_vars >>

\* new(), cache miss: `meta_cache.put(name.clone(), meta_data.clone())`, then
\* Ok(Self)
NewPut(p) ==
    /\ pc[p] = "put"
    /\ meta_cache' = MetaCachePut(meta_cache, o_name[p], o_meta[p])
    /\ n_put' = [n_put EXCEPT ![p] = @ + 1]
    /\ pc' = [pc EXCEPT ![p] = "ready"]
    /\ UNCHANGED << arcs, o_name, o_cached, o_hit, o_meta, n_parse, n_read, rg_call >>
    /\ UNCHANGED << disk, chunk_vars, page_vars, read_vars, filter_vars, col_vars, iter_vars, key_vars, loop_vars >>

\* new() with meta_cache = None: parse the footer, no cache involved
NewNoCache(p) ==
    /\ pc[p] = "idle"
    /\ \E name \in Names :
        LET r == ParseMetadata(disk[name]) IN
        /\ o_name' = [o_name EXCEPT ![p] = name]
        /\ o_cached' = [o_cached EXCEPT ![p] = FALSE]
        /\ n_parse' = [n_parse EXCEPT ![p] = @ + 1]
        /\ n_read' = [n_read EXCEPT ![p] = @ + 1]
        /\ IF r.ok
           THEN /\ arcs' = Append(arcs, r.meta)
                /\ o_meta' = [o_meta EXCEPT ![p] = Len(arcs) + 1]
                /\ pc' = [pc EXCEPT ![p] = "ready"]
           ELSE /\ arcs' = arcs
                /\ o_meta' = o_meta
                /\ pc' = [pc EXCEPT ![p] = "failed"]
    /\ UNCHANGED << meta_cache, o_hit, n_put, rg_call >>
    /\ UNCHANGED << disk, chunk_vars, page_vars, read_vars, filter_vars, col_vars, iter_vars, key_vars, loop_vars >>

\* FileReader::num_row_groups
NumRowGroups(p) == Len(arcs[o_meta[p]].row_groups)

\* get_row_group answering every index with the first row group
RowGroupOutcome_AlwaysFirst(p, i) ==
    [i |-> i, outcome |-> "ok", rg |-> << arcs[o_meta[p]].row_groups[1] >>]

\* ParquetMetaData::row_group(i) is `&self.row_groups[i]`: an index past the
\* end panics; otherwise get_row_group returns Ok(row group reader).
RowGroupOutcome(p, i) ==
    IF i < NumRowGroups(p)
    THEN [i |-> i, outcome |-> "ok", rg |-> << arcs[o_meta[p]].row_groups[i + 1] >>]
    ELSE [i |-> i, outcome |-> "panic", rg |-> << >>]

\* FileReader::get_row_group(i)
GetRowGroup(p) ==
    /\ pc[p] = "ready"
    /\ \E i \in 0 .. MaxRowGroups :
        LET r == RowGroupOutcome(p, i) IN
        /\ rg_call' = [rg_call EXCEPT ![p] = r]
        /\ pc' = [pc EXCEPT ![p] = IF r.outcome = "panic" THEN "panicked" ELSE "ready"]
    /\ UNCHANGED << meta_cache, arcs, o_name, o_cached, o_hit, o_meta,
                    n_parse, n_read, n_put >>
    /\ UNCHANGED << disk, chunk_vars, page_vars, read_vars, filter_vars, col_vars, iter_vars, key_vars, loop_vars >>

\* new(ReadName, .., meta_cache or None, ..) run from call to return by
\* caller p
OpenReader(p) ==
    /\ pc[p] = "idle"
    /\ \E cached \in BOOLEAN :
        LET o == NewSeq(cached, meta_cache, arcs, ReadName, disk[ReadName]) IN
        /\ o_name' = [o_name EXCEPT ![p] = ReadName]
        /\ o_cached' = [o_cached EXCEPT ![p] = cached]
        /\ o_meta' = [o_meta EXCEPT ![p] = o.meta]
        /\ pc' = [pc EXCEPT ![p] = IF o.ok THEN "ready" ELSE "failed"]
        /\ meta_cache' = o.cache
        /\ arcs' = o.heap
    /\ UNCHANGED << o_hit, n_parse, n_read, n_put, rg_call >>
    /\ UNCHANGED << disk, chunk_vars, page_vars, read_vars, filter_vars, col_vars, iter_vars, key_vars, loop_vars >>

\* the predicates filter_row_groups is called with: closures over the row
\* group's metadata and its index
Predicates == {"none", "all", "first", "not_first", "starts_at_0"}

\* predicate(row_group_metadata, i)
Accepts(pred, rg, i) ==
    IF pred = "none" THEN FALSE
    ELSE IF pred = "all" THEN TRUE
    ELSE IF pred = "first" THEN i = 0
    ELSE IF pred = "not_first" THEN i > 0
    ELSE rg.columns[1].start = 0

\* the loop of filter_row_groups with enumerate() counting from 1
RECURSIVE FilteredRowGroups_FromOne(_, _, _)
FilteredRowGroups_FromOne(rgs, pred, i) ==
    IF i >= Len(rgs) THEN << >>
    ELSE (IF Accepts(pred, rgs[i + 1], i + 1) THEN << rgs[i + 1] >> ELSE << >>)
         \o FilteredRowGroups_FromOne(rgs, pred, i + 1)

\* the loop of filter_row_groups (lines 109-114) from index i on: the row
\* groups the predicate accepts, pushed in iteration order
RECURSIVE FilteredRowGroups(_, _, _)
FilteredRowGroups(rgs, pred, i) ==
    IF i >= Len(rgs) THEN << >>
    ELSE (IF Accepts(pred, rgs[i + 1], i) THEN << rgs[i + 1] >> ELSE << >>)
         \o FilteredRowGroups(rgs, pred, i + 1)

FilterIdle == flt = << >>

\* filter_row_groups writing the filtered row groups into the metadata
\* object the reader holds
FilterRowGroups_InPlace(p) ==
    /\ pc[p] = "ready"
    /\ Len(flt) < MaxFilters
    /\ \E pred \in Predicates :
        LET kept == FilteredRowGroups(arcs[o_meta[p]].row_groups, pred, 0) IN
        /\ arcs' = [arcs EXCEPT ![o_meta[p]] = [row_groups |-> kept]]
        /\ o_meta' = o_meta
        /\ flt' = Append(flt, [p |-> p, pred |-> pred, before |-> o_meta[p],
                               was |-> arcs[o_meta[p]].row_groups,
                               after |-> o_meta[p]])
    /\ UNCHANGED << meta_cache, pc, o_name, o_cached, o_hit, n_parse, n_read,
                    n_put, rg_call >>
    /\ UNCHANGED << disk, chunk_vars, page_vars, read_vars, col_vars, iter_vars, key_vars, loop_vars >>

\* filter_row_groups(predicate): self.metadata becomes a new Arc over the
\* accepted row groups
FilterRowGroups(p) ==
    /\ pc[p] = "ready"
    /\ Len(flt) < MaxFilters
    /\ \E pred \in Predicates :
        LET kept == FilteredRowGroups(arcs[o_meta[p]].row_groups, pred, 0) IN
        /\ arcs' = Append(arcs, [row_groups |-> kept])
        /\ o_meta' = [o_meta EXCEPT ![p] = Len(arcs) + 1]
        /\ flt' = Append(flt, [p |-> p, pred |-> pred, before |-> o_meta[p],
                               was |-> arcs[o_meta[p]].row_groups,
                               after |-> Len(arcs) + 1])
    /\ UNCHANGED << meta_cache, pc, o_name, o_cached, o_hit, n_parse, n_read,
                    n_put, rg_call >>
    /\ UNCHANGED << disk, chunk_vars, page_vars, read_vars, col_vars, iter_vars, key_vars, loop_vars >>

\* ------------------------------------------------------------------------
\* Row group reader: SerializedRowGroupReader

Calls == 1 .. NumCalls

\* the bytes of the two files the row group readers read
ChunkBytes(name) ==
    IF name = "f"
    THEN << Byte(1), Byte(2), Byte(3), Byte(4) >>
    ELSE << Byte(5), Byte(6), Byte(7), Byte(8) >>

\* "f" is read through a File, "f_1" through a SliceableCursor; both
\* footers describe one row group
\* the column chunks the row group's metadata describes: two inside the
\* file, one that runs past its end, one with a compression kind without codec
ChunkCols ==
    << Col(0, 2, 1, "UNCOMPRESSED"), Col(2, 2, 1, "SNAPPY"),
       Col(2, 3, 1, "UNCOMPRESSED"), Col(1, 2, 1, "LZO") >>

ChunkDisk ==
    [n \in Names |->
        FileOf(IF n = "f" THEN "file" ELSE "cursor", TRUE, ChunkBytes(n),
               << [columns |-> ChunkCols] >>)]

\* self.metadata.column(i) for the row group readers of a file: the columns
\* of its row groups
ColumnsOf(src) ==
    UNION {{src.row_groups[k].columns[j] : j \in 1 .. Len(src.row_groups[k].columns)} :
            k \in 1 .. Len(src.row_groups)}

NoArg == [name |-> "f", cached |-> FALSE, col |-> Col(0, 0, 0, "UNCOMPRESSED")]

NoOut == [kind |-> "none", reader |-> << >>]

ChunkIdle ==
    /\ data_cache = << >>
    /\ c_pc = [c \in Calls |-> "idle"]
    /\ c_arg = [c \in Calls |-> NoArg]
    /\ c_hit = [c \in Calls |-> "none"]
    /\ c_buf = [c \in Calls |-> << >>]
    /\ c_reads = [c \in Calls |-> 0]
    /\ c_chunk = [c \in Calls |-> << >>]
    /\ c_out = [c \in Calls |-> NoOut]

\* the data cache key of call c made of the file name alone
KeyOf_NameOnly(c) == c_arg[c].name

\* the data cache key of call c
KeyOf(c) == FormatPageDataKey(c_arg[c].name, c_arg[c].col.start, c_arg[c].col.length)

\* get_column_page_reader, data cache present: get_file_chunk looks the key
\* up; on a hit the cursor is over the cached bytes and the page reader is
\* built at once.
ChunkGet(c) ==
    /\ c_pc[c] = "idle"
    /\ \E name \in Names : \E col \in ColumnsOf(disk[name]) :
        LET key == FormatPageDataKey(name, col.start, col.length)
            v == DataCacheGet(data_cache, key)
        IN
        /\ c_arg' = [c_arg EXCEPT ![c] = [name |-> name, cached |-> TRUE, col |-> col]]
        /\ IF v # << >>
           THEN /\ c_hit' = [c_hit EXCEPT ![c] = "hit"]
                /\ c_chunk' = [c_chunk EXCEPT ![c] = << CursorNew(v[1]) >>]
                /\ c_out' = [c_out EXCEPT ![c] = NewPageReader(CursorNew(v[1]), col)]
                /\ c_pc' = [c_pc EXCEPT ![c] = "done"]
           ELSE /\ c_hit' = [c_hit EXCEPT ![c] = "miss"]
                /\ c_chunk' = c_chunk
                /\ c_out' = c_out
                /\ c_pc' = [c_pc EXCEPT ![c] = "read"]
    /\ UNCHANGED << data_cache, c_buf, c_reads >>
    /\ UNCHANGED << disk, open_vars, page_vars, read_vars, filter_vars, col_vars, iter_vars, key_vars, loop_vars >>

\* get_file_chunk, cache miss: `self.get_data(col_start, col_length)?`
ChunkRead(c) ==
    /\ c_pc[c] = "read"
    /\ LET r == GetData(disk[c_arg[c].name], c_arg[c].col.start, c_arg[c].col.length) IN
        /\ c_reads' = [c_reads EXCEPT ![c] = @ + 1]
        /\ c_buf' = [c_buf EXCEPT ![c] = r.buf]
        /\ IF r.ok
           THEN /\ c_pc' = [c_pc EXCEPT ![c] = "put"]
                /\ c_out' = c_out
           ELSE /\ c_pc' = [c_pc EXCEPT ![c] = "done"]
                /\ c_out' = [c_out EXCEPT ![c] = [kind |-> "err", reader |-> << >>]]
    /\ UNCHANGED << data_cache, c_arg, c_hit, c_chunk >>
    /\ UNCHANGED << disk, open_vars, page_vars, read_vars, filter_vars, col_vars, iter_vars, key_vars, loop_vars >>

\* ChunkPut with the insertion forgotten
ChunkPut_NoInsert(c) ==
    /\ c_pc[c] = "put"
    /\ c_chunk' = [c_chunk EXCEPT ![c] = << CursorNew(c_buf[c]) >>]
    /\ c_out' = [c_out EXCEPT ![c] = NewPageReader(CursorNew(c_buf[c]), c_arg[c].col)]
    /\ c_pc' = [c_pc EXCEPT ![c] = "done"]
    /\ UNCHANGED << data_cache, c_arg, c_hit, c_buf, c_reads >>
    /\ UNCHANGED << disk, open_vars, page_vars, read_vars, filter_vars, col_vars, iter_vars, key_vars, loop_vars >>

\* get_file_chunk, cache miss: `data_cache.put(key, buf_arc.clone())`, the
\* cursor over the same buffer, and the page reader
ChunkPut(c) ==
    /\ c_pc[c] = "put"
    /\ data_cache' = DataCachePut(data_cache, KeyOf(c), c_buf[c])
    /\ c_chunk' = [c_chunk EXCEPT ![c] = << CursorNew(c_buf[c]) >>]
    /\ c_out' = [c_out EXCEPT ![c] = NewPageReader(CursorNew(c_buf[c]), c_arg[c].col)]
    /\ c_pc' = [c_pc EXCEPT ![c] = "done"]
    /\ UNCHANGED << c_arg, c_hit, c_buf, c_reads >>
    /\ UNCHANGED << disk, open_vars, page_vars, read_vars, filter_vars, col_vars, iter_vars, key_vars, loop_vars >>

\* get_column_page_reader, no data cache: a fresh get_data on every call
ChunkNoCache(c) ==
    /\ c_pc[c] = "idle"
    /\ \E name \in Names : \E col \in ColumnsOf(disk[name]) :
        LET r == GetData(disk[name], col.start, col.length) IN
        /\ c_arg' = [c_arg EXCEPT ![c] = [name |-> name, cached |-> FALSE, col |-> col]]
        /\ c_reads' = [c_reads EXCEPT ![c] = @ + 1]
        /\ c_buf' = [c_buf EXCEPT ![c] = r.buf]
        /\ c_pc' = [c_pc EXCEPT ![c] = "done"]
        /\ IF r.ok
           THEN /\ c_chunk' = [c_chunk EXCEPT ![c] = << CursorNew(r.buf) >>]
                /\ c_out' = [c_out EXCEPT ![c] = NewPageReader(CursorNew(r.buf), col)]
           ELSE /\ c_chunk' = c_chunk
                /\ c_out' = [c_out EXCEPT ![c] = [kind |-> "err", reader |-> << >>]]
    /\ UNCHANGED << data_cache, c_hit >>
    /\ UNCHANGED << disk, open_vars, page_vars, read_vars, filter_vars, col_vars, iter_vars, key_vars, loop_vars >>

\* ------------------------------------------------------------------------
\* Page reader: SerializedPageReader

B1 == Byte(1)
B2 == Byte(2)

\* The pages a column chunk is built from, each a header followed by its
\* payload: well-formed data, dictionary, index and data-v2 pages, and pages
\* whose header disagrees with what follows it.
PageKinds ==
    { \* data page, 1 value, payload that decompresses to itself
      << Hdr("DATA_PAGE", 1, 1, {"data_page_header"}, 1, 0, 0, "none"), B1 >>,
      \* data page, 2 values, 1 compressed byte for 2 uncompressed
      << Hdr("DATA_PAGE", 1, 2, {"data_page_header"}, 2, 0, 0, "none"), B2 >>,
      \* data page without values and without payload
      << Hdr("DATA_PAGE", 0, 0, {"data_page_header"}, 0, 0, 0, "none") >>,
      \* dictionary page
      << Hdr("DICTIONARY_PAGE", 1, 1, {"dictionary_page_header"}, 1, 0, 0, "none"), B1 >>,
      \* index page
      << Hdr("INDEX_PAGE", 1, 1, {}, 0, 0, 0, "none"), B1 >>,
      \* data-v2 page, one level byte, is_compressed absent
      << Hdr("DATA_PAGE_V2", 2, 3, {"data_page_header_v2"}, 1, 1, 0, "none"), B2, B2 >>,
      \* data-v2 page, one level byte, is_compressed = false
      << Hdr("DATA_PAGE_V2", 2, 2, {"data_page_header_v2"}, 1, 1, 0, "false"), B2, B2 >>,
      \* data-v2 page, is_compressed absent, whose uncompressed size is not
      \* what the payload after the level byte expands to
      << Hdr("DATA_PAGE_V2", 2, 2, {"data_page_header_v2"}, 1, 1, 0, "none"), B2, B2 >>,
      \* data page with a negative value count
      << Hdr("DATA_PAGE", 1, 1, {"data_page_header"}, -1, 0, 0, "none"), B1 >>,
      \* data page whose uncompressed size is not what the payload expands to
      << Hdr("DATA_PAGE", 1, 1, {"data_page_header"}, 1, 0, 0, "none"), B2 >>,
      \* data page announcing more payload than follows
      << Hdr("DATA_PAGE", 2, 2, {"data_page_header"}, 1, 0, 0, "none"), B1 >>,
      \* data page without its sub-header
      << Hdr("DATA_PAGE", 1, 1, {}, 1, 0, 0, "none"), B1 >>,
      \* negative compressed size
      << Hdr("DATA_PAGE", -1, 1, {"data_page_header"}, 1, 0, 0, "none"), B1 >>,
      \* data-v2 page whose sizes are smaller than its level bytes
      << Hdr("DATA_PAGE_V2", 1, 1, {"data_page_header_v2"}, 1, 2, 0, "none"), B1 >>,
      \* bytes that are no page header
      << B1 >> }

\* the byte streams made of at most n pages of the given kinds
RECURSIVE StreamsOf(_, _)
StreamsOf(kinds, n) ==
    IF n = 0 THEN {<< >>}
    ELSE LET S == StreamsOf(kinds, n - 1) IN S \cup {p \o t : p \in kinds, t \in S}

Streams(n) == StreamsOf(PageKinds, n)

NoPull == [kind |-> "none", page |-> << >>, why |-> "", skipped |-> 0]

PageIdle ==
    /\ overflow_checks = FALSE
    /\ pr = PageReaderNew(<< >>, 0, FALSE)
    /\ pr_last = NoPull
    /\ pr_pages = << >>
    /\ pr_failed = FALSE

\* SerializedPageReader::new(buf, total_num_values, compression, _) over a
\* column chunk, for the compression kinds create_codec accepts
PageInit ==
    /\ overflow_checks \in BOOLEAN
    /\ \E bytes \in Streams(MaxPages), total \in 0 .. MaxTotal,
          compression \in {"UNCOMPRESSED", "SNAPPY"} :
        pr = NewPageReader(CursorNew(bytes), Col(0, Len(bytes), total, compression)).reader[1]
    /\ pr_last = NoPull
    /\ pr_pages = << >>
    /\ pr_failed = FALSE

\* one call of get_next_page on the reader; a panicked caller calls no more
Pull ==
    /\ pr_last.kind # "panic"
    /\ LET r == GetNextPage(pr, overflow_checks) IN
        /\ pr' = r.rd
        /\ pr_last' = [kind |-> r.kind, page |-> r.page, why |-> r.why,
                       skipped |-> r.skipped]
        /\ pr_pages' = pr_pages \o r.page
        /\ pr_failed' = (pr_failed \/ r.kind = "err")
    /\ UNCHANGED overflow_checks
    /\ UNCHANGED << disk, open_vars, chunk_vars, read_vars, filter_vars, col_vars, iter_vars, key_vars, loop_vars >>

\* no get_next_page call under way
NoLoop == [pc |-> "idle", iters |-> 0, from |-> 0]

LoopIdle == lp = NoLoop

\* get_next_page is called on the reader; a panicked caller calls no more
LoopCall ==
    /\ lp.pc # "running"
    /\ pr_last.kind # "panic"
    /\ lp' = [pc |-> "running", iters |-> 0, from |-> pr.pos]
    /\ UNCHANGED page_vars
    /\ UNCHANGED << disk, open_vars, chunk_vars, read_vars, filter_vars, col_vars, iter_vars, key_vars >>

\* the call under way runs one iteration of its loop: it returns, or goes
\* back to the loop head after a page it passes over
LoopIterate ==
    /\ lp.pc = "running"
    /\ LET b == LoopBody(pr, pr.pos, overflow_checks) IN
        /\ pr' = b.rd
        /\ IF b.kind = "continue"
           THEN /\ lp' = [lp EXCEPT !.iters = @ + 1]
                /\ UNCHANGED << pr_last, pr_pages, pr_failed >>
           ELSE /\ lp' = [lp EXCEPT !.iters = @ + 1, !.pc = "returned"]
                /\ pr_last' = [kind |-> b.kind, page |-> b.page, why |-> b.why,
                               skipped |-> lp.iters]
                /\ pr_pages' = pr_pages \o b.page
                /\ pr_failed' = (pr_failed \/ b.kind = "err")
    /\ UNCHANGED overflow_checks
    /\ UNCHANGED << disk, open_vars, chunk_vars, read_vars, filter_vars, col_vars, iter_vars, key_vars >>

\* ------------------------------------------------------------------------
\* The page readers of one row group

\* a row group of three column chunks: a dictionary page and a data page,
\* uncompressed; one SNAPPY data page; a chunk whose compression kind has no
\* codec
PagedCols ==
    << Col(0, 4, 1, "UNCOMPRESSED"), Col(4, 2, 1, "SNAPPY"), Col(2, 2, 1, "LZO") >>

PagedBytes ==
    << Hdr("DICTIONARY_PAGE", 1, 1, {"dictionary_page_header"}, 1, 0, 0, "none"), B1,
       Hdr("DATA_PAGE", 1, 1, {"data_page_header"}, 1, 0, 0, "none"), B1,
       Hdr("DATA_PAGE", 1, 2, {"data_page_header"}, 1, 0, 0, "none"), B2 >>

\* the file holding that row group, read through a File; the other name
\* has no row group
PagedDisk ==
    [n \in Names |-> IF n = ReadName
                     THEN FileOf("file", TRUE, PagedBytes, << [columns |-> PagedCols] >>)
                     ELSE FileOf("file", TRUE, << >>, << >>)]

\* a row group of two column chunks: one data page; two data pages
SourceCols ==
    << Col(0, 2, 1, "UNCOMPRESSED"), Col(2, 4, 2, "UNCOMPRESSED") >>

SourceBytes ==
    << Hdr("DATA_PAGE", 1, 1, {"data_page_header"}, 1, 0, 0, "none"), B1,
       Hdr("DATA_PAGE", 1, 1, {"data_page_header"}, 1, 0, 0, "none"), B1,
       Hdr("DATA_PAGE", 1, 1, {"data_page_header"}, 1, 0, 0, "none"), B2 >>

\* the same content behind two names, read through a File under one and
\* through a SliceableCursor over the bytes under the other; the content is
\* the whole row group or stops `cut` bytes before the end of the range
\* the footer gives the last column
SourceDisks ==
    {[n \in Names |->
        FileOf(IF n = ReadName THEN "file" ELSE "cursor", TRUE,
               SubSeq(SourceBytes, 1, Len(SourceBytes) - cut),
               << [columns |-> SourceCols] >>)] : cut \in {0, 1}}

\* the callers of get_column_page_reader that go on to pull pages
Readers == 1 .. NumReaders

\* get_next_page on the page reader call c was given, until it returns
\* something other than a page
ColPull(c) ==
    /\ c_pc[c] = "done"
    /\ c_out[c].kind = "ok"
    /\ c_last[c].kind \in {"none", "page"}
    /\ LET r == GetNextPage(c_out[c].reader[1], overflow_checks) IN
        /\ c_out' = [c_out EXCEPT ![c].reader = << r.rd >>]
        /\ c_pages' = [c_pages EXCEPT ![c] = @ \o r.page]
        /\ c_last' = [c_last EXCEPT ![c] = [kind |-> r.kind, page |-> r.page,
                                            why |-> r.why, skipped |-> r.skipped]]
    /\ UNCHANGED << data_cache, c_pc, c_arg, c_hit, c_buf, c_reads, c_chunk >>
    /\ UNCHANGED << disk, open_vars, page_vars, read_vars, filter_vars, iter_vars, key_vars, loop_vars >>

\* ------------------------------------------------------------------------
\* Full reads: new(), then every page of every column of every row group

\* get_file_chunk run from call to return: lines 183-199
GetFileChunk(use_cache, cache, name, src, col) ==
    LET key == FormatPageDataKey(name, col.start, col.length)
        v == IF use_cache THEN DataCacheGet(cache, key) ELSE << >>
        r == GetData(src, col.start, col.length)
    IN
    IF v # << >> THEN [ok |-> TRUE, cursor |-> CursorNew(v[1]), cache |-> cache]
    ELSE IF ~r.ok THEN [ok |-> FALSE, cursor |-> CursorNew(<< >>), cache |-> cache]
    ELSE [ok |-> TRUE, cursor |-> CursorNew(r.buf),
          cache |-> IF use_cache THEN DataCachePut(cache, key, r.buf) ELSE cache]

\* a data page of 1 value and one of 2 values, of the same byte length
SecondChunks ==
    { << Hdr("DATA_PAGE", 1, 1, {"data_page_header"}, 1, 0, 0, "none"), B1 >>,
      << Hdr("DATA_PAGE", 1, 2, {"data_page_header"}, 2, 0, 0, "none"), B2 >> }

\* a file of one row group with two column chunks s and t laid end to end,
\* the footer describing both, and the last `cut` bytes of the file missing
ReadFile(kind, s, t, compression, cut) ==
    FileOf(kind, TRUE, SubSeq(s \o t, 1, Len(s) + Len(t) - cut),
           << [columns |-> << Col(0, Len(s), 2, compression),
                              Col(Len(s), Len(t), t[1].num_values, compression) >>] >>)

\* the pages of the files read in full: data and dictionary pages with
\* payload and sub-header, well-formed or with sizes that disagree with
\* the payload
ReadKinds ==
    {p \in PageKinds : /\ p[1].tag = "hdr"
                       /\ p[1].type_ \in {"DATA_PAGE", "DICTIONARY_PAGE"}
                       /\ p[1].compressed_page_size >= 1
                       /\ p[1].sub # {}}

ReadDisks ==
    {[n \in Names |-> IF n = ReadName THEN ReadFile(kind, s, t, compression, cut)
                      ELSE CorruptFile] :
        kind \in {"file", "cursor"}, s \in StreamsOf(ReadKinds, MaxPages),
        t \in SecondChunks, compression \in {"UNCOMPRESSED", "SNAPPY"},
        cut \in {0, 1}}

\* no full read under way
NoRun ==
    [mode |-> "idle", meta |-> NoArc, i |-> 1, j |-> 1, reading |-> FALSE,
     reader |-> << >>, pages |-> << >>, out |-> << >>]

ReadIdle ==
    /\ rd_cached = << >>
    /\ rd_plain = << >>
    /\ rd_run = NoRun

\* the row groups of the metadata the running read holds
RunRowGroups == arcs[rd_run.meta].row_groups

\* the running read with the result of column (i, j) recorded, standing at
\* the column after it
NextColumn(run, pages, last) ==
    LET more == run.j < Len(RunRowGroups[run.i].columns) IN
    [run EXCEPT !.out = Append(@, [pages |-> pages, last |-> last]),
                !.reading = FALSE, !.reader = << >>, !.pages = << >>,
                !.i = IF more THEN @ ELSE @ + 1,
                !.j = IF more THEN @ + 1 ELSE 1]

\* the read is over: what it yielded is kept with the reads of its mode
Yield(mode, opened, out) ==
    /\ rd_run' = NoRun
    /\ IF mode = "cached"
       THEN /\ rd_cached' = Append(rd_cached, [opened |-> opened, out |-> out])
            /\ UNCHANGED rd_plain
       ELSE /\ rd_plain' = << [opened |-> opened, out |-> out] >>
            /\ UNCHANGED rd_cached

\* a full read starts: the reader is opened, with the metadata cache or
\* without it
ReadOpen(mode) ==
    /\ rd_run.mode = "idle"
    /\ LET o == NewSeq(mode = "cached", meta_cache, arcs, ReadName, disk[ReadName]) IN
        /\ meta_cache' = o.cache
        /\ arcs' = o.heap
        /\ IF o.ok
           THEN /\ rd_run' = [NoRun EXCEPT !.mode = mode, !.meta = o.meta]
                /\ UNCHANGED << rd_cached, rd_plain >>
           ELSE Yield(mode, FALSE, << >>)
    /\ UNCHANGED << pc, o_name, o_cached, o_hit, o_meta, n_parse, n_read, n_put, rg_call >>
    /\ UNCHANGED << disk, chunk_vars, page_vars, filter_vars, col_vars, iter_vars, key_vars, loop_vars >>

\* a full read through a reader opened with the metadata cache and the data
\* cache
CachedRead ==
    /\ Len(rd_cached) < MaxReads
    /\ ReadOpen("cached")

\* a full read through a reader opened without any cache
PlainRead ==
    /\ rd_plain = << >>
    /\ ReadOpen("plain")

\* get_column_page_reader on the next column of the running read
ReadColumn ==
    /\ rd_run.mode # "idle"
    /\ ~rd_run.reading
    /\ rd_run.i <= Len(RunRowGroups)
    /\ LET col == RunRowGroups[rd_run.i].columns[rd_run.j]
           ch == GetFileChunk(rd_run.mode = "cached", data_cache, ReadName,
                              disk[ReadName], col)
           made == NewPageReader(ch.cursor, col)
       IN
        /\ data_cache' = ch.cache
        /\ rd_run' = IF ~ch.ok \/ made.kind = "err"
                     THEN NextColumn(rd_run, << >>, "err")
                     ELSE [rd_run EXCEPT !.reading = TRUE, !.reader = made.reader]
    /\ UNCHANGED << c_pc, c_arg, c_hit, c_buf, c_reads, c_chunk, c_out >>
    /\ UNCHANGED << disk, open_vars, page_vars, rd_cached, rd_plain, filter_vars, col_vars, iter_vars, key_vars, loop_vars >>

\* get_next_page on the page reader of the running read, as in
\* `while let Ok(Some(page)) = page_reader.get_next_page()`; a panic ends
\* the read
ReadPage ==
    /\ rd_run.reading
    /\ LET r == GetNextPage(rd_run.reader[1], overflow_checks) IN
        IF r.kind = "page"
        THEN /\ rd_run' = [rd_run EXCEPT !.reader = << r.rd >>,
                                         !.pages = @ \o r.page]
             /\ UNCHANGED << rd_cached, rd_plain >>
        ELSE IF r.kind = "panic"
        THEN Yield(rd_run.mode, TRUE,
                   Append(rd_run.out, [pages |-> rd_run.pages, last |-> "panic"]))
        ELSE /\ rd_run' = NextColumn(rd_run, rd_run.pages, r.kind)
             /\ UNCHANGED << rd_cached, rd_plain >>
    /\ UNCHANGED << disk, open_vars, chunk_vars, page_vars, filter_vars, col_vars, iter_vars, key_vars, loop_vars >>

\* every column of every row group has been read
ReadDone ==
    /\ rd_run.mode # "idle"
    /\ ~rd_run.reading
    /\ rd_run.i > Len(RunRowGroups)
    /\ Yield(rd_run.mode, TRUE, rd_run.out)
    /\ UNCHANGED << disk, open_vars, chunk_vars, page_vars, filter_vars, col_vars, iter_vars, key_vars, loop_vars >>

\* ------------------------------------------------------------------------
\* Data cache keys: get_file_chunk on row group readers of several names

\* file names made of the same letter, underscores and digits
KeyNames == {"f", "f_1", "f_1_1"}

\* the column byte ranges asked for
KeyOffsets == {1, 11}

KeyLengths == {1, 11}

\* the file behind a name: no two files, and no two places of one file,
\* hold the same byte
KeyFile(name) ==
    FileOf("file", TRUE, [i \in 1 .. 22 |-> Byte(100 * Len(name) + i)], << >>)

KeyIdle == keys = << >>

\* get_file_chunk(col_start, col_length) on a row group reader of some name
\* sharing the data cache
Resolve ==
    /\ Len(keys) < MaxResolves
    /\ \E name \in KeyNames : \E col_start \in KeyOffsets : \E col_length \in KeyLengths :
        LET key == FormatPageDataKey(name, col_start, col_length)
            ch == GetFileChunk(TRUE, data_cache, name, KeyFile(name),
                               Col(col_start, col_length, 0, "UNCOMPRESSED"))
        IN
        /\ data_cache' = ch.cache
        /\ keys' = Append(keys, [name |-> name, col_start |-> col_start,
                                 col_length |-> col_length, key |-> key,
                                 hit |-> DataCacheGet(data_cache, key) # << >>,
                                 bytes |-> ch.cursor.data])
    /\ UNCHANGED << c_pc, c_arg, c_hit, c_buf, c_reads, c_chunk, c_out >>
    /\ UNCHANGED << disk, open_vars, page_vars, read_vars, filter_vars, col_vars, iter_vars, loop_vars >>

\* ------------------------------------------------------------------------
\* Page iterator: FilePageIterator over a file reader

\* no iterator constructed yet
NoIter ==
    [state |-> "none", p |-> 0, column |-> 0, given |-> << >>, indices |-> << >>,
     cur |-> << >>, visited |-> << >>, pages |-> << >>, last |-> "none",
     ended |-> 0]

\* column chunk j of row group g of the files iterated over: g + 1 data
\* pages of one value each, the payload telling the column
RECURSIVE IterChunk(_, _)
IterChunk(g, j) ==
    LET page == << Hdr("DATA_PAGE", 1, 1, {"data_page_header"}, 1, 0, 0, "none"),
                   Byte(j + 1) >>
    IN IF g = 0 THEN page ELSE IterChunk(g - 1, j) \o page

\* row group g of these files: two columns laid end to end after the row
\* groups before it
IterRowGroup(g) ==
    [columns |-> << Col(2 * g * (g + 1), 2 * (g + 1), g + 1, "UNCOMPRESSED"),
                    Col(2 * g * (g + 1) + 2 * (g + 1), 2 * (g + 1), g + 1,
                        "UNCOMPRESSED") >>]

RECURSIVE IterBytes(_)
IterBytes(n) ==
    IF n = 0 THEN << >>
    ELSE IterBytes(n - 1) \o IterChunk(n - 1, 0) \o IterChunk(n - 1, 1)

\* a file of n row groups
IterFile(n) ==
    FileOf("file", TRUE, IterBytes(n), [g \in 1 .. n |-> IterRowGroup(g - 1)])

IterDisks ==
    {[n \in Names |-> IF n = ReadName THEN IterFile(k) ELSE CorruptFile] :
        k \in 1 .. MaxRowGroups}

\* the ordered row-group indices an iterator may be given
RECURSIVE IndexSeqs(_)
IndexSeqs(n) ==
    IF n = 0 THEN {<< >>}
    ELSE IndexSeqs(n - 1)
         \cup {Append(s, i) : s \in {t \in IndexSeqs(n - 1) : Len(t) = n - 1},
                              i \in 0 .. MaxRowGroups - 1}

\* the iterator as constructed over file reader p for one column and the
\* given row-group indices
IterOver(p, column, indices) ==
    [NoIter EXCEPT !.state = "active", !.p = p, !.column = column,
                   !.given = indices, !.indices = indices]

\* FilePageIterator::new(column_index, file_reader): every row group of the
\* reader, in order
IterNew(p) ==
    /\ it = NoIter
    /\ pc[p] = "ready"
    /\ \E column \in 0 .. 1 :
        it' = IterOver(p, column, [k \in 1 .. NumRowGroups(p) |-> k - 1])
    /\ UNCHANGED << disk, open_vars, chunk_vars, page_vars, read_vars, filter_vars, col_vars, key_vars, loop_vars >>

\* FilePageIterator::with_row_groups(column_index, row_group_indices,
\* file_reader)
IterWithRowGroups(p) ==
    /\ it = NoIter
    /\ pc[p] = "ready"
    /\ \E column \in 0 .. 1 : \E indices \in IndexSeqs(MaxRowGroups) :
        it' = IterOver(p, column, indices)
    /\ UNCHANGED << disk, open_vars, chunk_vars, page_vars, read_vars, filter_vars, col_vars, key_vars, loop_vars >>

\* one pull on iterator x, run from call to return: the next page of the
\* current page reader; when that reader is exhausted, or there is none
\* yet, the next row-group index is taken and a page reader made for the
\* column of that row group through get_row_group and
\* get_column_page_reader; end when no index is left
RECURSIVE IterPull(_, _)
IterPull(x, cache) ==
    IF x.cur # << >>
    THEN LET r == GetNextPage(x.cur[1], overflow_checks) IN
         IF r.kind = "page"
         THEN [it |-> [x EXCEPT !.cur = << r.rd >>, !.pages = @ \o r.page,
                                !.last = "page"],
               cache |-> cache]
         ELSE IF r.kind = "end"
         THEN IterPull([x EXCEPT !.cur = << >>], cache)
         ELSE [it |-> [x EXCEPT !.cur = << >>, !.last = r.kind,
                                !.state = IF r.kind = "panic" THEN "panicked"
                                          ELSE "failed"],
               cache |-> cache]
    ELSE IF x.indices = << >>
    THEN [it |-> [x EXCEPT !.last = "end", !.ended = @ + 1], cache |-> cache]
    ELSE
    LET i == Head(x.indices)
        rg == RowGroupOutcome(x.p, i)
        col == rg.rg[1].columns[x.column + 1]
        ch == GetFileChunk(o_cached[x.p], cache, o_name[x.p], disk[o_name[x.p]], col)
        made == IF ch.ok THEN NewPageReader(ch.cursor, col)
                ELSE [kind |-> "err", reader |-> << >>]
        taken == [x EXCEPT !.indices = Tail(@)]
    IN
    IF rg.outcome = "panic"
    THEN [it |-> [taken EXCEPT !.visited = Append(@, [i |-> i, made |-> << >>]),
                               !.last = "panic", !.state = "panicked"],
          cache |-> cache]
    ELSE IF made.kind = "err"
    THEN [it |-> [taken EXCEPT !.visited = Append(@, [i |-> i, made |-> << >>]),
                               !.last = "err", !.state = "failed"],
          cache |-> ch.cache]
    ELSE IterPull([taken EXCEPT !.visited = Append(@, [i |-> i, made |-> made.reader]),
                                !.cur = made.reader],
                  ch.cache)

\* Iterator::next on the page iterator
IterNext ==
    /\ it.state = "active"
    /\ it.ended < MaxEnds
    /\ LET r == IterPull(it, data_cache) IN
        /\ it' = r.it
        /\ data_cache' = r.cache
    /\ UNCHANGED << c_pc, c_arg, c_hit, c_buf, c_reads, c_chunk, c_out >>
    /\ UNCHANGED << disk, open_vars, page_vars, read_vars, filter_vars, col_vars, key_vars, loop_vars >>

IterIdle == it = NoIter

\* no get_next_page made yet on any call's page reader
ColIdle ==
    /\ c_pages = [c \in Calls |-> << >>]
    /\ c_last = [c \in Calls |-> NoPull]

\* ------------------------------------------------------------------------
\* Specifications

\* concurrent new() calls sharing one metadata cache, and get_row_group
InitOpen ==
    /\ disk \in OpenDisks
    /\ OpenIdle
    /\ ChunkIdle
    /\ PageIdle
    /\ ReadIdle
    /\ FilterIdle
    /\ ColIdle
    /\ IterIdle
    /\ KeyIdle
    /\ LoopIdle

NextOpen ==
    \E p \in Opens :
        \/ NewGet(p)
        \/ NewParse(p)
        \/ NewPut(p)
        \/ NewNoCache(p)
        \/ GetRowGroup(p)

SpecOpen == InitOpen /\ [][NextOpen]_vars

\* concurrent get_column_page_reader calls sharing one data cache
InitChunk ==
    /\ disk = ChunkDisk
    /\ OpenIdle
    /\ ChunkIdle
    /\ PageIdle
    /\ ReadIdle
    /\ FilterIdle
    /\ ColIdle
    /\ IterIdle
    /\ KeyIdle
    /\ LoopIdle

NextChunk ==
    \E c \in Calls :
        \/ ChunkGet(c)
        \/ ChunkRead(c)
        \/ ChunkPut(c)
        \/ ChunkNoCache(c)

SpecChunk == InitChunk /\ [][NextChunk]_vars

\* one page reader pulled to the end of its column chunk
InitPage ==
    /\ disk = ChunkDisk
    /\ OpenIdle
    /\ ChunkIdle
    /\ PageInit
    /\ ReadIdle
    /\ FilterIdle
    /\ ColIdle
    /\ IterIdle
    /\ KeyIdle
    /\ LoopIdle

NextPage == Pull

SpecPage == InitPage /\ [][NextPage]_vars

\* repeated full reads of one file with and without the caches
InitRead ==
    /\ disk \in ReadDisks
    /\ OpenIdle
    /\ ChunkIdle
    /\ PageIdle
    /\ ReadIdle
    /\ FilterIdle
    /\ ColIdle
    /\ IterIdle
    /\ KeyIdle
    /\ LoopIdle

NextRead == CachedRead \/ PlainRead \/ ReadColumn \/ ReadPage \/ ReadDone

SpecRead == InitRead /\ [][NextRead]_vars

\* readers over a file of up to MaxRowGroups row groups, opened with or
\* without the metadata cache, and filter_row_groups on them
FilterDisks ==
    {[n \in Names |-> IF n = ReadName THEN OpenFile(k) ELSE CorruptFile] :
        k \in 1 .. MaxRowGroups}

InitFilter ==
    /\ disk \in FilterDisks
    /\ OpenIdle
    /\ ChunkIdle
    /\ PageIdle
    /\ ReadIdle
    /\ FilterIdle
    /\ ColIdle
    /\ IterIdle
    /\ KeyIdle
    /\ LoopIdle

NextFilter ==
    \E p \in Opens :
        \/ OpenReader(p)
        \/ FilterRowGroups(p)

SpecFilter == InitFilter /\ [][NextFilter]_vars

\* get_column_page_reader calls and pulls on readers of the same content
\* read through a File and through a SliceableCursor
InitSources ==
    /\ disk \in SourceDisks
    /\ OpenIdle
    /\ ChunkIdle
    /\ PageIdle
    /\ ReadIdle
    /\ FilterIdle
    /\ ColIdle
    /\ IterIdle
    /\ KeyIdle
    /\ LoopIdle

NextSources ==
    \E c \in Readers :
        \/ ChunkGet(c)
        \/ ChunkRead(c)
        \/ ChunkPut(c)
        \/ ChunkNoCache(c)
        \/ ColPull(c)

SpecSources == InitSources /\ [][NextSources]_vars

\* get_file_chunk calls for ranges of files of several names through one
\* data cache
InitKeys ==
    /\ disk = PagedDisk
    /\ OpenIdle
    /\ ChunkIdle
    /\ PageIdle
    /\ ReadIdle
    /\ FilterIdle
    /\ ColIdle
    /\ IterIdle
    /\ KeyIdle
    /\ LoopIdle

NextKeys == Resolve

SpecKeys == InitKeys /\ [][NextKeys]_vars

\* get_next_page calls on one page reader run iteration by iteration; a
\* call under way goes on running
InitLoop ==
    /\ disk = ChunkDisk
    /\ OpenIdle
    /\ ChunkIdle
    /\ PageInit
    /\ ReadIdle
    /\ FilterIdle
    /\ ColIdle
    /\ IterIdle
    /\ KeyIdle
    /\ LoopIdle

NextLoop == LoopCall \/ LoopIterate

SpecLoop == InitLoop /\ [][NextLoop]_vars /\ WF_vars(LoopIterate)

\* page iterators over the readers of a file of up to MaxRowGroups row
\* groups
InitIter ==
    /\ disk \in IterDisks
    /\ OpenIdle
    /\ ChunkIdle
    /\ PageIdle
    /\ ReadIdle
    /\ FilterIdle
    /\ ColIdle
    /\ IterIdle
    /\ KeyIdle
    /\ LoopIdle

NextIter ==
    \/ \E p \in Opens :
        \/ OpenReader(p)
        \/ IterNew(p)
        \/ IterWithRowGroups(p)
    \/ IterNext

SpecIter == InitIter /\ [][NextIter]_vars

\* get_column_page_reader calls on the columns of one row group, sharing
\* the data cache or without it, and pulls on the page readers they return
InitCols ==
    /\ disk = PagedDisk
    /\ OpenIdle
    /\ ChunkIdle
    /\ PageIdle
    /\ ReadIdle
    /\ FilterIdle
    /\ ColIdle
    /\ IterIdle
    /\ KeyIdle
    /\ LoopIdle

NextCols ==
    \E c \in Readers :
        \/ ChunkGet(c)
        \/ ChunkRead(c)
        \/ ChunkPut(c)
        \/ ChunkNoCache(c)
        \/ ColPull(c)

SpecCols == InitCols /\ [][NextCols]_vars

\* ------------------------------------------------------------------------
\* Properties of the file reader

\* new() returned Ok(Self) to caller p
HasReader(p) == pc[p] \in {"ready", "panicked"}

\* the callers that were given the shared metadata cache and the name n
SharingCache(n) == {p \in Opens : o_cached[p] /\ o_name[p] = n}

\* C1: among the new() calls that share the metadata cache and a file name,
\* in every interleaving, at most one parses the footer (successfully) and
\* all the readers they return hold the same Arc<ParquetMetaData>.
C1_ParsedAtMostOnce ==
    \A n \in Names :
        /\ Cardinality({p \in SharingCache(n) : n_parse[p] > 0 /\ o_meta[p] # NoArc}) <= 1
        /\ \A p, q \in SharingCache(n) :
            (HasReader(p) /\ HasReader(q)) => o_meta[p] = o_meta[q]

\* C2: a new() call given a metadata cache that returns a reader has, on a
\* miss, parsed once and put once, the put being made by the step that
\* returns; on a hit it has parsed nothing, read nothing and put nothing; in
\* both cases the reader's metadata is the Arc the cache holds for the name
\* when the call returns.
C2_HitAndMissEffects ==
    [][\A p \in Opens :
        (pc[p] \in {"idle", "put"} /\ pc'[p] = "ready" /\ o_cached'[p]) =>
            /\ o_hit'[p] = "miss" =>
                (n_parse'[p] = 1 /\ n_put'[p] = 1 /\ n_put[p] = 0)
            /\ o_hit'[p] = "hit" =>
                (n_parse'[p] = 0 /\ n_read'[p] = 0 /\ n_put'[p] = 0
                 /\ meta_cache' = meta_cache)
            /\ o_hit'[p] \in {"hit", "miss"}
            /\ o_meta'[p] # NoArc
            /\ o_meta'[p] = MetaCacheGet(meta_cache', o_name'[p])]_vars

\* C2 witness: one caller returned after a miss with one parse and one put,
\* another returned after a hit on the entry the first one put.
C2_Witness ==
    \E p, q \in Opens :
        /\ pc[p] = "ready" /\ o_hit[p] = "miss" /\ n_parse[p] = 1 /\ n_put[p] = 1
        /\ pc[q] = "ready" /\ o_hit[q] = "hit" /\ n_parse[q] = 0
        /\ o_meta[q] = o_meta[p]

\* C3: the step in which new() fails allocates no reader and no Arc, has
\* parsed exactly once and put nothing, and leaves the metadata cache as it
\* is; a failed call takes no further step (no retry); and the cache is only
\* ever changed by the put of a call that then returns a reader.
C3_FailedOpenLeavesCache ==
    [][/\ \A p \in Opens :
            /\ (pc[p] # "failed" /\ pc'[p] = "failed") =>
                /\ meta_cache' = meta_cache
                /\ arcs' = arcs
                /\ n_parse'[p] = 1
                /\ n_put'[p] = 0
                /\ o_meta'[p] = NoArc
            /\ pc[p] = "failed" =>
                (pc'[p] = "failed" /\ n_parse'[p] = n_parse[p] /\ n_put'[p] = 0
                 /\ o_meta'[p] = NoArc)
       /\ meta_cache' # meta_cache =>
            \E q \in Opens : n_put'[q] = n_put[q] + 1 /\ pc'[q] = "ready"]_vars

\* C3 witness: a call with a cache and a call without one have both failed
\* on a corrupt footer, with the cache still empty for their names.
C3_Witness ==
    \E p, q \in Opens :
        /\ pc[p] = "failed" /\ o_cached[p] /\ n_parse[p] = 1
        /\ pc[q] = "failed" /\ ~o_cached[q] /\ n_parse[q] = 1
        /\ meta_cache[o_name[p]] = NoArc

\* C10: get_row_group(i) with i >= num_row_groups() returns Err to the caller
\* (it does not panic) and the reader stays usable.
C10_OutOfRangeIsError ==
    \A p \in Opens :
        (rg_call[p].outcome # "none" /\ rg_call[p].i >= NumRowGroups(p)) =>
            (rg_call[p].outcome = "err" /\ pc[p] = "ready")

\* the positions (from 1) of the row groups of `was` that the predicate
\* accepts when given the row group and its index (from 0) in `was`
AcceptedPositions(pred, was) ==
    SelectSeq([j \in 1 .. Len(was) |-> j], LAMBDA j : Accepts(pred, was[j], j - 1))

\* the filter_row_groups calls made on reader p, in order
FilterCallsOf(p) == SelectSeq(flt, LAMBDA c : c.p = p)

\* C11: after filter_row_groups(predicate) the reader's row groups are the
\* row groups of the view before the call that the predicate accepts when
\* asked with their index in that view, in the same order; their number is
\* the number of accepted row groups, 0 when none is accepted, and the reader
\* stays usable.
C11_FilterKeepsAccepted ==
    /\ \A k \in 1 .. Len(flt) :
        LET c == flt[k]
            idx == AcceptedPositions(c.pred, c.was)
            got == arcs[c.after].row_groups
        IN
        /\ Len(got) = Len(idx)
        /\ \A j \in 1 .. Len(idx) : got[j] = c.was[idx[j]]
        /\ Len(got) = Cardinality({j \in 1 .. Len(c.was) :
                                      Accepts(c.pred, c.was[j], j - 1)})
        /\ c.pred = "none" => Len(got) = 0
    /\ \A p \in Opens :
        LET mine == FilterCallsOf(p) IN
        mine # << >> => (o_meta[p] = mine[Len(mine)].after /\ pc[p] = "ready")

\* C11 witness: a reader of two row groups was filtered to the row groups
\* after the first, which left the second one alone, and then filtered with
\* a predicate that accepts nothing, which left it with no row group.
C11_Witness ==
    \E p \in Opens :
        /\ Len(flt) = 2 /\ flt[1].p = p /\ flt[2].p = p
        /\ flt[1].pred = "not_first" /\ Len(flt[1].was) = 2
        /\ arcs[flt[1].after].row_groups = << flt[1].was[2] >>
        /\ flt[2].pred = "none" /\ flt[2].was = << flt[1].was[2] >>
        /\ pc[p] = "ready" /\ NumRowGroups(p) = 0

\* C12: a filter_row_groups call changes the metadata of the reader it is
\* called on and nothing else: no metadata object that existed before the
\* call is modified, the metadata cache is untouched and no other reader's
\* metadata changes; so the cached entry, and every reader that was not
\* filtered, still has every row group of the file.
C12_FilterLeavesOthers ==
    [][/\ flt' # flt =>
            /\ meta_cache' = meta_cache
            /\ \A a \in 1 .. Len(arcs) : arcs'[a] = arcs[a]
            /\ \A q \in Opens : q # flt'[Len(flt')].p => o_meta'[q] = o_meta[q]
       /\ \A n \in Names :
            meta_cache'[n] # NoArc =>
                arcs'[meta_cache'[n]].row_groups = disk[n].row_groups
       /\ \A q \in Opens :
            (pc'[q] = "ready" /\ \A k \in 1 .. Len(flt') : flt'[k].p # q) =>
                arcs'[o_meta'[q]].row_groups = disk[o_name'[q]].row_groups]_vars

\* C12 witness: a reader that took its metadata from the cache was filtered
\* down to fewer row groups; another reader then opened with the same name
\* and cache holds the cached metadata with all the row groups.
C12_Witness ==
    \E p, q \in Opens :
        /\ p # q /\ pc[p] = "ready" /\ pc[q] = "ready"
        /\ o_cached[p] /\ o_cached[q]
        /\ flt # << >> /\ \A k \in 1 .. Len(flt) : flt[k].p = p
        /\ flt[1].before = meta_cache[ReadName]
        /\ o_meta[q] = meta_cache[ReadName]
        /\ NumRowGroups(p) < NumRowGroups(q)
        /\ NumRowGroups(q) = Len(disk[ReadName].row_groups)

\* ------------------------------------------------------------------------
\* Properties of the row group reader

\* the bytes of the range [start, start + length) of the file behind call
\* c's row group reader, when the file holds the whole range
RangeBytes(name, col) ==
    [i \in 1 .. col.length |-> disk[name].bytes[col.start + i]]

InFile(name, col) == col.start + col.length <= Len(disk[name].bytes)

\* C4: get_file_chunk with a data cache: a hit reads nothing from the byte
\* source, leaves the cache alone and returns a cursor at the start of the
\* cached bytes; a miss whose read succeeds has made exactly one read (of
\* the requested range), stores the bytes under the key and returns a cursor
\* at the start of those bytes; a miss whose read fails has made one read and
\* stores nothing. Without a data cache every call makes one fresh read and
\* the cache is not touched.
C4_ChunkResolution ==
    [][\A c \in Calls :
        LET a == c_arg'[c]
            key == FormatPageDataKey(a.name, a.col.start, a.col.length)
        IN
        /\ (c_pc[c] = "idle" /\ c_hit'[c] = "hit") =>
            /\ c_reads'[c] = 0
            /\ data_cache' = data_cache
            /\ c_chunk'[c] = << [data |-> data_cache[key], pos |-> 1] >>
        /\ (c_pc[c] = "idle" /\ c_hit'[c] = "miss") =>
            /\ c_reads'[c] = 0
            /\ data_cache' = data_cache
            /\ key \notin DOMAIN data_cache
        /\ (c_pc[c] = "read" /\ c_pc'[c] # "read") =>
            /\ c_reads'[c] = 1
            /\ data_cache' = data_cache
            /\ c_pc'[c] = "done" => (c_out'[c].kind = "err" /\ c_chunk'[c] = << >>)
            /\ (c_pc'[c] = "put" /\ InFile(a.name, a.col)) =>
                    c_buf'[c] = RangeBytes(a.name, a.col)
        /\ (c_pc[c] = "put" /\ c_pc'[c] = "done") =>
            /\ c_reads'[c] = 1
            /\ key \in DOMAIN data_cache'
            /\ data_cache'[key] = c_buf[c]
            /\ \A k \in DOMAIN data_cache : k # key => data_cache'[k] = data_cache[k]
            /\ c_chunk'[c] = << [data |-> c_buf[c], pos |-> 1] >>
        /\ (c_pc[c] = "idle" /\ c_pc'[c] = "done" /\ ~a.cached) =>
            /\ c_reads'[c] = 1
            /\ data_cache' = data_cache
            /\ c_out'[c].kind # "err" =>
                /\ c_chunk'[c] = << [data |-> c_buf'[c], pos |-> 1] >>
                /\ InFile(a.name, a.col) => c_buf'[c] = RangeBytes(a.name, a.col)]_vars

\* C4 witness: one call missed, read once and inserted; a second hit that
\* entry without reading; a third, without a cache, read the same range anew.
C4_Witness ==
    \E c, d, e \in Calls :
        /\ c_pc[c] = "done" /\ c_hit[c] = "miss" /\ c_reads[c] = 1
        /\ KeyOf(c) \in DOMAIN data_cache
        /\ c_pc[d] = "done" /\ c_hit[d] = "hit" /\ c_reads[d] = 0
        /\ KeyOf(d) = KeyOf(c) /\ c_chunk[d] = c_chunk[c] /\ c_chunk[d] # << >>
        /\ c_pc[e] = "done" /\ ~c_arg[e].cached /\ c_reads[e] = 1
        /\ c_arg[e].col = c_arg[c].col /\ c_arg[e].name = c_arg[c].name
        /\ c_chunk[e] = c_chunk[c]

\* C9: a get_column_page_reader call whose byte source yielded fewer bytes
\* than the column's length returns Err and no page reader, and the data
\* cache holds no entry under its key.
C9_ShortReadIsError ==
    \A c \in Calls :
        (c_pc[c] = "done" /\ c_reads[c] > 0 /\ Len(c_buf[c]) < c_arg[c].col.length) =>
            /\ c_out[c].kind = "err"
            /\ c_out[c].reader = << >>
            /\ c_arg[c].cached => KeyOf(c) \notin DOMAIN data_cache

\* C13: the bytes the data cache holds under a key never change: whatever
\* get_column_page_reader calls and get_next_page calls are made, in
\* whatever order, a key that is in the cache before and after a step has
\* the same bytes (a second insertion under the key inserts equal bytes).
C13_CachedBytesNeverChange ==
    [][\A k \in DOMAIN data_cache :
        k \in DOMAIN data_cache' => data_cache'[k] = data_cache[k]]_vars

\* C13 witness: two calls missed on the same range and both inserted, and
\* the page readers of both have returned pages.
C13_Witness ==
    \E c, d \in Calls :
        /\ c # d /\ KeyOf(c) = KeyOf(d) /\ KeyOf(c) \in DOMAIN data_cache
        /\ c_hit[c] = "miss" /\ c_hit[d] = "miss"
        /\ c_pc[c] = "done" /\ c_pc[d] = "done"
        /\ c_pages[c] # << >> /\ c_pages[d] # << >>

\* the first n results of get_next_page on a page reader that nothing else
\* touches
RECURSIVE SoloPulls(_, _, _)
SoloPulls(rd, n, pages) ==
    IF n = 0 THEN [pages |-> pages, last |-> "none"]
    ELSE LET r == GetNextPage(rd, FALSE) IN
         IF r.kind = "page" THEN
            (IF n = 1 THEN [pages |-> pages \o r.page, last |-> "page"]
             ELSE SoloPulls(r.rd, n - 1, pages \o r.page))
         ELSE [pages |-> pages, last |-> r.kind]

\* the get_next_page calls made on call c's page reader
PullsOf(c) == Len(c_pages[c]) + (IF c_last[c].kind \in {"none", "page"} THEN 0 ELSE 1)

\* the page reader of column col over the bytes of its range in the file
SoloReader(name, col) ==
    [buf |-> SubSeq(disk[name].bytes, col.start + 1, col.start + col.length),
     pos |-> 1, decompressor |-> (col.compression = "SNAPPY"),
     seen_num_values |-> 0, total_num_values |-> col.num_values]

\* C14: whatever the order in which page readers are created for the
\* columns of a row group and whatever the interleaving of pulls on them,
\* with or without the data cache, each page reader has returned exactly
\* what a page reader alone on its column's bytes returns to the same
\* number of pulls.
C14_ReadersIndependent ==
    \A c \in Calls :
        (c_pc[c] = "done" /\ c_out[c].kind = "ok") =>
            LET solo == SoloPulls(SoloReader(c_arg[c].name, c_arg[c].col), PullsOf(c), << >>) IN
            /\ c_pages[c] = solo.pages
            /\ c_last[c].kind = solo.last

\* C14 witness: two page readers stand at different places: one on the
\* first column, created with the data cache, has returned its first page;
\* one on the second column, created after it without the cache, has
\* reached its end.
C14_Witness ==
    \E c, d \in Calls :
        /\ c_pc[c] = "done" /\ c_arg[c].col = PagedCols[1] /\ c_arg[c].cached
        /\ Len(c_pages[c]) = 1 /\ c_last[c].kind = "page"
        /\ c_pc[d] = "done" /\ c_arg[d].col = PagedCols[2] /\ ~c_arg[d].cached
        /\ c_last[d].kind = "end" /\ Len(c_pages[d]) = 1

\* C21: two get_column_page_reader calls without data cache for the same
\* column of the same content, one through the File and one through the
\* SliceableCursor, have the same outcome, and after the same number of
\* get_next_page calls their page readers have returned the same pages and
\* the same last answer.
C21_CursorAndFileAgree ==
    \A c, d \in Readers :
        (/\ c_pc[c] = "done" /\ c_pc[d] = "done"
         /\ ~c_arg[c].cached /\ ~c_arg[d].cached
         /\ disk[c_arg[c].name].kind = "file" /\ disk[c_arg[d].name].kind = "cursor"
         /\ c_arg[c].col = c_arg[d].col) =>
            /\ c_out[c].kind = c_out[d].kind
            /\ PullsOf(c) = PullsOf(d) =>
                (c_pages[c] = c_pages[d] /\ c_last[c].kind = c_last[d].kind)

\* C25: of the get_file_chunk calls made through one data cache, two with
\* the same (name, col_start, col_length) used the same key and two with
\* different ones used different keys, file names containing underscores
\* and digits included; a call that found its key cached is one whose
\* range of its file was asked for before; and every call returned the
\* bytes of its own range of its own file.
C25_KeysAreInjective ==
    /\ \A i, j \in 1 .. Len(keys) :
        (keys[i].key = keys[j].key) <=>
            (/\ keys[i].name = keys[j].name
             /\ keys[i].col_start = keys[j].col_start
             /\ keys[i].col_length = keys[j].col_length)
    /\ \A j \in 1 .. Len(keys) :
        /\ keys[j].hit <=> \E i \in 1 .. j - 1 : keys[i].key = keys[j].key
        /\ keys[j].bytes = SubSeq(KeyFile(keys[j].name).bytes, keys[j].col_start + 1,
                                  keys[j].col_start + keys[j].col_length)

\* C25 witness: ranges (1, 11) and (11, 1) of file "f" and range (1, 1) of
\* file "f_1" were asked for in turn, none found cached.
C25_Witness ==
    /\ Len(keys) = 3
    /\ keys[1].name = "f" /\ keys[1].col_start = 1 /\ keys[1].col_length = 11
    /\ keys[2].name = "f" /\ keys[2].col_start = 11 /\ keys[2].col_length = 1
    /\ keys[3].name = "f_1" /\ keys[3].col_start = 1 /\ keys[3].col_length = 1
    /\ \A j \in 1 .. 3 : ~keys[j].hit

\* C20: get_column_page_reader on a column whose compression kind has no
\* codec has returned Err and no page reader, and nothing was pulled: no
\* page header parsed, no page returned.
C20_NoCodecFailsAtConstruction ==
    \A c \in Calls :
        (c_pc[c] = "done" /\ c_arg[c].col.compression \notin {"UNCOMPRESSED", "SNAPPY"}) =>
            /\ c_out[c].kind = "err"
            /\ c_out[c].reader = << >>
            /\ c_pages[c] = << >>
            /\ c_last[c] = NoPull

\* C20 witness: a call on the LZO column has returned Err after its bytes
\* were read into the data cache, and a call on another column has returned
\* a page.
C20_Witness ==
    \E c, e \in Calls :
        /\ c_pc[c] = "done" /\ c_arg[c].col.compression = "LZO" /\ c_arg[c].cached
        /\ KeyOf(c) \in DOMAIN data_cache
        /\ c_out[c].kind = "err"
        /\ c_pages[e] # << >>

\* ------------------------------------------------------------------------
\* Properties of the page reader

\* the sum of the value counts of the data pages in a sequence of pages
RECURSIVE DataValues(_)
DataValues(pages) ==
    IF pages = << >> THEN 0
    ELSE (IF Head(pages).type \in {"DataPage", "DataPageV2"}
          THEN Head(pages).num_values ELSE 0) + DataValues(Tail(pages))

\* the pages the reader had returned before its last get_next_page
PagesBeforeLast ==
    IF pr_last.kind = "page" THEN SubSeq(pr_pages, 1, Len(pr_pages) - 1) ELSE pr_pages

\* C6: seen_num_values never exceeds total_num_values.
C6_SeenNeverExceedsTotal == pr.seen_num_values <= pr.total_num_values

\* C7: get_next_page answers Ok(None) if and only if the value counts of the
\* data pages returned before the call sum exactly to total_num_values.
C7_EndIffSumReached ==
    pr_last.kind # "none" =>
        (pr_last.kind = "end" <=> DataValues(PagesBeforeLast) = pr.total_num_values)

\* C8: once a get_next_page has returned Err, no later get_next_page on the
\* same reader returns a page.
C8_ErrorAbortsIteration == [][pr_failed => pr_pages' = pr_pages]_vars

\* the page header the next get_next_page parses first, if it parses one
FirstHeader ==
    IF pr_last.kind # "panic" /\ MorePages(pr) /\ pr.pos <= Len(pr.buf)
       /\ pr.buf[pr.pos].tag = "hdr"
    THEN << pr.buf[pr.pos] >>
    ELSE << >>

\* level_offset of a header: the level byte lengths of a data-v2 sub-header
LevelOffset(h) ==
    IF "data_page_header_v2" \in h.sub
    THEN h.definition_levels_byte_length + h.repetition_levels_byte_length
    ELSE 0

\* a size of the header is negative or smaller than level_offset
MalformedSizes(h) ==
    \/ h.compressed_page_size < 0
    \/ h.uncompressed_page_size < 0
    \/ h.compressed_page_size < LevelOffset(h)
    \/ h.uncompressed_page_size < LevelOffset(h)

\* C15: a get_next_page whose page header has a negative size, or a size
\* smaller than level_offset, returns Err: it does not panic and returns no
\* page.
C15_MalformedSizesAreErrors ==
    [][\A k \in 1 .. Len(FirstHeader) :
        MalformedSizes(FirstHeader[k]) =>
            (pr_last'.kind = "err" /\ pr_pages' = pr_pages)]_vars

\* C16: a get_next_page whose page header is of type dictionary, data or
\* data-v2 and lacks the sub-header of that type returns Err (it does not
\* panic) and leaves seen_num_values as it was.
C16_MissingSubHeaderIsError ==
    [][\A k \in 1 .. Len(FirstHeader) :
        LET h == FirstHeader[k] IN
        (h.type_ \in {"DICTIONARY_PAGE", "DATA_PAGE", "DATA_PAGE_V2"}
         /\ RequiredSub(h.type_) \notin h.sub) =>
            (pr_last'.kind = "err" /\ pr'.seen_num_values = pr.seen_num_values)]_vars

\* C17: for a data-v2 page whose header has no is_compressed flag (sizes
\* well-formed, payload present): with a decompressor the page reader
\* decompresses the bytes after the level prefix and returns the level
\* prefix followed by the decompressed bytes when they are as long as
\* uncompressed_page_size less the prefix, Err otherwise; without a
\* decompressor it returns the bytes as read; the page returned reports
\* is_compressed = true.
C17_AbsentFlagMeansCompressed ==
    [][\A k \in 1 .. Len(FirstHeader) :
        LET h == FirstHeader[k]
            off == LevelOffset(h)
            cps == h.compressed_page_size
            raw == SubSeq(pr.buf, pr.pos + 1, pr.pos + cps)
            d == Decompress(SubSeq(raw, off + 1, cps))
            expected == IF pr.decompressor THEN SubSeq(raw, 1, off) \o d.out ELSE raw
        IN
        (/\ h.type_ = "DATA_PAGE_V2" /\ "data_page_header_v2" \in h.sub
         /\ h.is_compressed = "none"
         /\ ~MalformedSizes(h) /\ off >= 0 /\ pr.pos + cps <= Len(pr.buf)) =>
            IF pr.decompressor /\ (~d.ok \/ Len(d.out) # h.uncompressed_page_size - off)
            THEN pr_last'.kind = "err" /\ pr_pages' = pr_pages
            ELSE /\ pr_last'.kind = "page"
                 /\ pr_last'.page[1].type = "DataPageV2"
                 /\ pr_last'.page[1].is_compressed = TRUE
                 /\ pr_last'.page[1].buf = expected]_vars

\* C17 witness: a page reader with a decompressor has returned a data-v2
\* page without is_compressed flag as its level byte followed by the two
\* bytes its one payload byte expands to, reported as compressed.
C17_Witness ==
    /\ pr.decompressor
    /\ pr_last.kind = "page"
    /\ pr_last.page[1].type = "DataPageV2"
    /\ pr_last.page[1].is_compressed
    /\ pr_last.page[1].buf = << B2, B2, B2 >>
    /\ pr.buf[pr.pos - 3].tag = "hdr"
    /\ pr.buf[pr.pos - 3].is_compressed = "none"

\* can_decompress of a header: false only for a data-v2 sub-header whose
\* is_compressed flag is false
CanDecompress(h) == ~("data_page_header_v2" \in h.sub /\ h.is_compressed = "false")

\* C22: for a page of a returned type with its sub-header, well-formed
\* sizes and its payload present, L being its level_offset: a page reader
\* with a decompressor, can_decompress true, returns the first L bytes as
\* read followed by the decompression of the rest, and Err (no page) when
\* the decompression fails or is not uncompressed_page_size - L long;
\* without decompressor, or can_decompress false, it returns the
\* compressed_page_size bytes as read, whatever uncompressed_page_size
\* says.
C22_DecompressAfterLevels ==
    [][\A k \in 1 .. Len(FirstHeader) :
        LET h == FirstHeader[k]
            off == LevelOffset(h)
            cps == h.compressed_page_size
            raw == SubSeq(pr.buf, pr.pos + 1, pr.pos + cps)
            d == Decompress(SubSeq(raw, off + 1, cps))
        IN
        (/\ h.type_ \in {"DICTIONARY_PAGE", "DATA_PAGE", "DATA_PAGE_V2"}
         /\ RequiredSub(h.type_) \in h.sub
         /\ ~MalformedSizes(h) /\ off >= 0 /\ pr.pos + cps <= Len(pr.buf)) =>
            IF pr.decompressor /\ CanDecompress(h)
            THEN IF d.ok /\ Len(d.out) = h.uncompressed_page_size - off
                 THEN /\ pr_last'.kind = "page"
                      /\ pr_last'.page[1].buf = SubSeq(raw, 1, off) \o d.out
                 ELSE pr_last'.kind = "err" /\ pr_pages' = pr_pages
            ELSE /\ pr_last'.kind = "page"
                 /\ pr_last'.page[1].buf = raw]_vars

\* C22 witness: a page reader with a decompressor has returned a data page
\* of one compressed byte as the two bytes it expands to, and the reader
\* stands right after that page.
C22_Witness ==
    /\ pr.decompressor
    /\ pr_last.kind = "page"
    /\ pr_last.page[1].type = "DataPage"
    /\ pr_last.page[1].buf = << B2, B2 >>
    /\ pr.pos >= 3
    /\ pr.buf[pr.pos - 2].tag = "hdr"
    /\ pr.buf[pr.pos - 2].compressed_page_size = 1
    /\ pr.buf[pr.pos - 2].uncompressed_page_size = 2

\* the page of header h at the reader's position passes the steps every
\* page goes through before the match on its type: sizes well-formed,
\* payload present, and decompressed to the declared size where a
\* decompressor applies
Intact(h) ==
    LET off == LevelOffset(h)
        cps == h.compressed_page_size
        d == Decompress(SubSeq(pr.buf, pr.pos + 1 + off, pr.pos + cps))
    IN
    /\ ~MalformedSizes(h) /\ off >= 0 /\ pr.pos + cps <= Len(pr.buf)
    /\ (pr.decompressor /\ CanDecompress(h)) =>
            (d.ok /\ Len(d.out) = h.uncompressed_page_size - off)

\* C23: a get_next_page that meets an intact dictionary page returns it and
\* leaves seen_num_values as it was; one that meets an intact page of
\* another non-data type (an index page) consumes its header and payload,
\* does not return it and answers what get_next_page answers from the
\* position right after that page, seen_num_values changing only by what
\* that answer counts.
C23_DictionaryAndSkippedPages ==
    [][\A k \in 1 .. Len(FirstHeader) :
        LET h == FirstHeader[k]
            after == pr.pos + 1 + h.compressed_page_size
            rest == GetNextPage([pr EXCEPT !.pos = after], overflow_checks)
        IN
        /\ (h.type_ = "DICTIONARY_PAGE" /\ RequiredSub(h.type_) \in h.sub /\ Intact(h)) =>
                /\ pr_last'.kind = "page"
                /\ pr_last'.page[1].type = "DictionaryPage"
                /\ pr_pages' = Append(pr_pages, pr_last'.page[1])
                /\ pr'.seen_num_values = pr.seen_num_values
                /\ pr'.pos = after
        /\ (h.type_ = "INDEX_PAGE" /\ Intact(h)) =>
                /\ pr_last'.skipped = rest.skipped + 1
                /\ pr_last'.kind = rest.kind
                /\ pr_last'.page = rest.page
                /\ pr_pages' = pr_pages \o rest.page
                /\ pr' = rest.rd
                /\ pr'.pos >= after
                /\ rest.kind # "page" => pr'.seen_num_values = pr.seen_num_values]_vars

\* C23 witness: one get_next_page has passed over an index page and
\* returned the dictionary page after it, and no value is counted as seen.
C23_Witness ==
    /\ pr_last.kind = "page"
    /\ pr_last.skipped = 1
    /\ pr_last.page[1].type = "DictionaryPage"
    /\ pr_pages = pr_last.page
    /\ pr.seen_num_values = 0
    /\ pr.pos = Len(pr.buf) + 1

\* C24: a page reader whose last get_next_page answered Ok(None) has seen
\* at least total_num_values values, and every later get_next_page on it
\* answers Ok(None) again, with the stream position, seen_num_values and
\* the pages returned so far left as they were.
C24_ExhaustedIsAbsorbing ==
    /\ [](pr_last.kind = "end" => pr.seen_num_values >= pr.total_num_values)
    /\ [][pr_last.kind = "end" =>
            /\ pr_last'.kind = "end"
            /\ pr_last'.skipped = 0
            /\ pr' = pr
            /\ pr_pages' = pr_pages]_vars

\* C24 witness: a page reader has returned a page and then Ok(None), with
\* a page header still unread behind the position it stands at.
C24_Witness ==
    /\ pr_last.kind = "end"
    /\ Len(pr_pages) = 1
    /\ pr.pos <= Len(pr.buf)
    /\ pr.buf[pr.pos].tag = "hdr"
    /\ pr.total_num_values > 0

\* C26: every get_next_page call on a page reader over a finite stream
\* returns, after no more iterations of its loop than the stream holds
\* elements from where the call started plus one, each iteration that goes
\* back to the loop head having moved the stream forward; and what it
\* returns is a page, Ok(None) or Err.
C26_PullTerminates ==
    /\ [](lp.pc # "idle" =>
            /\ lp.iters <= Len(pr.buf) + 2 - lp.from
            /\ pr.pos <= Len(pr.buf) + 1)
    /\ [][(lp.pc = "running" /\ lp'.pc = "running") => pr'.pos > pr.pos]_vars
    /\ (lp.pc = "running") ~> (lp.pc = "returned")
    /\ [](lp.pc = "returned" => pr_last.kind \in {"page", "end", "err"})

\* C18: every get_next_page leaves seen_num_values at least as large as it
\* was and the stream position at least as far as it was; the page it
\* returns is appended to the pages returned so far and is the page of a
\* header at or after the position the call started from, and the call
\* stops right after that page's payload.
C18_PagesInStreamOrder ==
    [][/\ pr'.seen_num_values >= pr.seen_num_values
       /\ pr'.pos >= pr.pos
       /\ pr'.pos <= Len(pr.buf) + 1
       /\ pr_last'.kind = "page" =>
            /\ pr_pages' = Append(pr_pages, pr_last'.page[1])
            /\ \E q \in pr.pos .. Len(pr.buf) :
                /\ pr.buf[q].tag = "hdr"
                /\ pr.buf[q].type_ \in {"DICTIONARY_PAGE", "DATA_PAGE", "DATA_PAGE_V2"}
                /\ pr_last'.page[1].num_values = AsU32(pr.buf[q].num_values)
                /\ pr'.pos = q + 1 + pr.buf[q].compressed_page_size
                /\ \A j \in pr.pos .. q - 1 : pr.buf[j].tag = "hdr" =>
                        pr.buf[j].type_ = "INDEX_PAGE"
       /\ pr_last'.kind # "page" => pr_pages' = pr_pages]_vars

\* ------------------------------------------------------------------------
\* Properties of the page iterator

\* the row-group indices the iterator has taken so far, in order
VisitedIndices == [k \in 1 .. Len(it.visited) |-> it.visited[k].i]

\* the column of the iterator in row group i of its file reader's view
IterColumn(i) == arcs[o_meta[it.p]].row_groups[i + 1].columns[it.column + 1]

\* the bytes of the chunks of the first n page readers the iterator made
RECURSIVE VisitedBytes(_)
VisitedBytes(n) ==
    IF n = 0 THEN 0
    ELSE VisitedBytes(n - 1)
         + (IF it.visited[n].made = << >> THEN 0 ELSE Len(it.visited[n].made[1].buf))

C5_CachedReadsEqualPlainRead ==
    \A i \in 1 .. Len(rd_cached) :
        /\ rd_plain # << >> => rd_cached[i] = rd_plain[1]
        /\ rd_cached[i] = rd_cached[1]

\* C5 witness: MaxReads reads through the caches and one without have been
\* made, both columns yielded pages, and the chunks came from the data cache.
C5_Witness ==
    /\ Len(rd_cached) = MaxReads
    /\ rd_plain # << >>
    /\ rd_plain[1].opened
    /\ \A j \in 1 .. 2 : rd_plain[1].out[j].pages # << >>
    /\ rd_plain[1].out[1].last = "end"
    /\ Cardinality(DOMAIN data_cache) = 2
    /\ meta_cache[ReadName] # NoArc

====
